---- MODULE Spec2Model ----
(***************************************************************************)
(* A model of the extractgqlts type-inference engine (package internal,    *)
(* type Typer): the type-union model, the alternatives builder, the        *)
(* selection visitor, the declaration/output builder and the document      *)
(* driver.                                                                 *)
(*                                                                         *)
(* Text is a sequence of tokens.  Every blank of the Go string is a token  *)
(* of its own (SP), so strings.Contains(s, " ") is "some token is SP";     *)
(* identifiers, quoted names and punctuation are single tokens.  Render    *)
(* turns a text into the Go string it stands for.                          *)
(*                                                                         *)
(* A recursive Go visitor is modelled with an explicit call stack: an      *)
(* action runs a handler up to the point where it calls into a nested      *)
(* selection set, and the rest of the handler (the code after the call,    *)
(* or its deferred closure) is an item on the stack.                       *)
(***************************************************************************)
EXTENDS Integers, Sequences, FiniteSets, TLC

\* ------------------------------------------------------------------ bounds

\* Number of query strings handed to VisitString in one run.
MaxDocs == 3
\* Number of selections in the selection set of the generated documents.
MaxSel == 2
\* Number of list levels in the types of the variables drawn.
MaxDepth == 3

\* ------------------------------------------------------------------- text

SP == " "

RECURSIVE Render(_)
Render(text) ==
    IF Len(text) = 0 THEN ""
    ELSE IF Len(text) = 1 THEN text[1]
    ELSE Render(SubSeq(text, 1, Len(text) \div 2))
         \o Render(SubSeq(text, Len(text) \div 2 + 1, Len(text)))

Contains(text, tok) == \E i \in 1..Len(text) : text[i] = tok

\* encoding/json's Marshal of an identifier: the name in double quotes.
StringToJSON(s) == "\"" \o s \o "\""

\* Go compares strings bytewise; StringOrder lists, in that order, every
\* string the model sorts (upper case < '_' < lower case, '"' before letters).
StringOrder ==
    << "\"Green\"", "\"Mutation\"", "\"Pet\"", "\"Query\"", "\"Red\"", "\"Subscription\"",
       "\"User\"",
       "Named", "Outer", "PetF", "Profile", "User", "UserF",
       "__typename", "a", "allUsers", "b", "bio", "concatAll", "currentUser", "format",
       "hello",
       "homepage", "id", "ints", "later", "message", "n", "name", "named", "never",
       "node", "now", "ok", "owner", "profile", "rename", "species", "status", "stringLists",
       "sum", "t", "uptime", "user", "userById", "userChanged", "userId", "v",
       "viewerId" >>

Rank(s) == CHOOSE i \in 1..Len(StringOrder) : StringOrder[i] = s

StringLess(a, b) == Rank(a) < Rank(b)

RECURSIVE SortStrings(_)
\* sort.Strings of a collection of distinct strings, given as a set.
SortStrings(S) ==
    IF S = {} THEN <<>>
    ELSE LET m == CHOOSE x \in S : \A y \in S \ {x} : StringLess(x, y)
         IN <<m>> \o SortStrings(S \ {m})

RECURSIVE InsertSorted(_, _)
InsertSorted(s, sorted) ==
    IF sorted = <<>> THEN <<s>>
    ELSE IF StringLess(Head(sorted), s) THEN <<Head(sorted)>> \o InsertSorted(s, Tail(sorted))
    ELSE <<s>> \o sorted

RECURSIVE SortStringSeq(_)
\* sort.Strings of a slice (duplicates kept).
SortStringSeq(seq) ==
    IF seq = <<>> THEN <<>> ELSE InsertSorted(Head(seq), SortStringSeq(Tail(seq)))

RECURSIVE TextLess(_, _)
\* Bytewise order of two rendered texts whose tokens are in StringOrder or
\* are the same separators at the same places: a proper prefix sorts first.
TextLess(a, b) ==
    IF b = <<>> THEN FALSE
    ELSE IF a = <<>> THEN TRUE
    ELSE IF Head(a) = Head(b) THEN TextLess(Tail(a), Tail(b))
    ELSE StringLess(Head(a), Head(b))

RECURSIVE SortTexts(_)
SortTexts(S) ==
    IF S = {} THEN <<>>
    ELSE LET m == CHOOSE x \in S : \A y \in S \ {x} : TextLess(x, y)
         IN <<m>> \o SortTexts(S \ {m})

Range(f) == {f[i] : i \in DOMAIN f}

EmptyMap == [x \in {} |-> <<>>]

\* m[k] = v of a Go map.
MapSet(m, k, v) == [x \in DOMAIN m \cup {k} |-> IF x = k THEN v ELSE m[x]]

\* ----------------------------------------------------------------- schema

\* ast.Type as the chain beginType walks (lines 440-447): the wrappers from
\* the outermost to the leaf; Elem tells a list level (typ.Elem != nil).
NamedType(n) == << [NamedType |-> n, Elem |-> FALSE, NonNull |-> FALSE] >>

NonNullType(t) == << [t[1] EXCEPT !.NonNull = TRUE] >> \o Tail(t)

ListType(t) == << [NamedType |-> "", Elem |-> TRUE, NonNull |-> FALSE] >> \o t

NoFields == [x \in {} |-> <<>>]

\* The schema of the package's tests (TestTyper), with a Mutation and a
\* Subscription root, a second custom scalar, fields of the built-in
\* scalars ID and Float, a field format(t: Instant!): String!, and an
\* interface Node that no type implements, an enum and an input type.
Schema ==
    [ Query |->
        [ Kind |-> "OBJECT", Name |-> "Query", Interfaces |-> <<>>, Types |-> <<>>,
          Fields |->
            [ hello       |-> NonNullType(NamedType("String")),
              userById    |-> NamedType("User"),
              currentUser |-> NamedType("User"),
              allUsers    |-> NonNullType(ListType(NonNullType(NamedType("User")))),
              now         |-> NonNullType(NamedType("Instant")),
              named       |-> NamedType("Named"),
              status      |-> NamedType("Status"),
              concatAll   |-> NonNullType(NamedType("String")),
              sum         |-> NonNullType(NamedType("Int")),
              viewerId    |-> NamedType("ID"),
              uptime      |-> NonNullType(NamedType("Float")),
              homepage    |-> NamedType("Url"),
              format      |-> NonNullType(NamedType("String")),
              node        |-> NamedType("Node") ] ],
      Mutation |->
        [ Kind |-> "OBJECT", Name |-> "Mutation", Interfaces |-> <<>>, Types |-> <<>>,
          Fields |-> [ rename |-> NamedType("User") ] ],
      Subscription |->
        [ Kind |-> "OBJECT", Name |-> "Subscription", Interfaces |-> <<>>, Types |-> <<>>,
          Fields |-> [ userChanged |-> NonNullType(NamedType("User")) ] ],
      Instant |->
        [ Kind |-> "SCALAR", Name |-> "Instant", Interfaces |-> <<>>, Types |-> <<>>,
          Fields |-> NoFields ],
      Url |->
        [ Kind |-> "SCALAR", Name |-> "Url", Interfaces |-> <<>>, Types |-> <<>>,
          Fields |-> NoFields ],
      Mood |->
        [ Kind |-> "ENUM", Name |-> "Mood", Interfaces |-> <<>>, Types |-> <<>>,
          Fields |-> NoFields ],
      Filter |->
        [ Kind |-> "INPUT_OBJECT", Name |-> "Filter", Interfaces |-> <<>>, Types |-> <<>>,
          Fields |-> [ name |-> NamedType("String") ] ],
      Node |->
        [ Kind |-> "INTERFACE", Name |-> "Node", Interfaces |-> <<>>, Types |-> <<>>,
          Fields |-> [ id |-> NonNullType(NamedType("ID")) ] ],
      Named |->
        [ Kind |-> "INTERFACE", Name |-> "Named", Interfaces |-> <<>>, Types |-> <<>>,
          Fields |-> [ name |-> NonNullType(NamedType("String")) ] ],
      User |->
        [ Kind |-> "OBJECT", Name |-> "User", Interfaces |-> <<"Named">>, Types |-> <<>>,
          Fields |-> [ name    |-> NonNullType(NamedType("String")),
                       profile |-> NamedType("String") ] ],
      Pet |->
        [ Kind |-> "OBJECT", Name |-> "Pet", Interfaces |-> <<"Named">>, Types |-> <<>>,
          Fields |-> [ name    |-> NonNullType(NamedType("String")),
                       species |-> NonNullType(NamedType("String")),
                       owner   |-> NamedType("User") ] ],
      Status |->
        [ Kind |-> "UNION", Name |-> "Status", Interfaces |-> <<>>,
          Types |-> <<"Green", "Red">>, Fields |-> NoFields ],
      Green |->
        [ Kind |-> "OBJECT", Name |-> "Green", Interfaces |-> <<>>, Types |-> <<>>,
          Fields |-> [ ok |-> NonNullType(NamedType("Boolean")) ] ],
      Red |->
        [ Kind |-> "OBJECT", Name |-> "Red", Interfaces |-> <<>>, Types |-> <<>>,
          Fields |-> [ ok      |-> NonNullType(NamedType("Boolean")),
                       message |-> NonNullType(NamedType("String")) ] ] ]

TypeNames == DOMAIN Schema

\* Schema.Types is a Go map: ranging over it enumerates the types in an
\* order that differs from one loop to the next.  The orders drawn are two
\* opposite ones.
TypeOrders ==
    { << "Filter", "Green", "Instant", "Mood", "Mutation", "Named", "Node", "Pet", "Query", "Red", "Status",
         "Subscription", "Url", "User" >>,
      << "User", "Url", "Subscription", "Status", "Red", "Query", "Pet", "Node", "Named", "Mutation", "Mood", "Instant", "Green", "Filter" >> }

\* t.Schema.Types[name]: the definition, or no definition (nil) for a name
\* the schema lacks; a definition is named by its type name, nil by "".
getDefinition(name) == IF name \in TypeNames THEN name ELSE ""

\* ------------------------------------------------------------ type unions

RECURSIVE QuotedNames(_)
QuotedNames(defs) ==
    IF defs = <<>> THEN <<>>
    ELSE <<StringToJSON(Head(defs))>> \o QuotedNames(Tail(defs))

RECURSIVE JoinStrings(_, _)
\* strings.Join(names, sep), the result as a text.
JoinStrings(names, sep) ==
    IF names = <<>> THEN <<>>
    ELSE IF Len(names) = 1 THEN <<names[1]>>
    ELSE <<names[1]>> \o sep \o JoinStrings(Tail(names), sep)

\* canonicalizeUnion without line 61: the names joined as they come.
canonicalizeUnion_unsorted(alternatives) ==
    IF Len(alternatives) = 0 THEN <<"never">>
    ELSE JoinStrings(alternatives, <<SP, "|", SP>>)

canonicalizeUnion(alternatives) ==
    IF Len(alternatives) = 0 THEN <<"never">>
    ELSE JoinStrings(SortStringSeq(alternatives), <<SP, "|", SP>>)

\* newTypeUnion with the key of its first member only.
newTypeUnion_first(defs) ==
    [ definitions |-> defs,
      canonical   |-> canonicalizeUnion(QuotedNames(IF defs = <<>> THEN <<>> ELSE <<defs[1]>>)) ]

newTypeUnion(defs) ==
    [ definitions |-> defs, canonical |-> canonicalizeUnion(QuotedNames(defs)) ]

RECURSIVE SelectSeq2(_, _)
SelectSeq2(seq, S) ==
    IF seq = <<>> THEN <<>>
    ELSE (IF Head(seq) \in S THEN <<Head(seq)>> ELSE <<>>) \o SelectSeq2(Tail(seq), S)

\* Replacement instead of intersection: the union of the second operand.
intersectUnions_replaced(a, b) == newTypeUnion(b.definitions)

intersectUnions(a, b) ==
    LET seen == Range(a.definitions)
    IN newTypeUnion(SelectSeq2(b.definitions, seen))

\* toConcreteUnion without the test of line 214: every object type that
\* lists an interface.
toConcreteUnion_candidates(def, order) ==
    CASE Schema[def].Kind = "OBJECT" -> newTypeUnion(<<def>>)
      [] Schema[def].Kind = "INTERFACE" ->
            newTypeUnion(SelectSeq2(order,
                {c \in TypeNames : Schema[c].Kind = "OBJECT" /\ Schema[c].Interfaces # <<>>}))
      [] Schema[def].Kind = "UNION" -> newTypeUnion(Schema[def].Types)

\* Typer.toConcreteUnion for a definition of the schema; order is the order
\* in which the loop over Schema.Types meets the types.  (A nil definition
\* or a non-composite kind panics: see Panics.)
toConcreteUnion(def, order) ==
    CASE Schema[def].Kind = "OBJECT" -> newTypeUnion(<<def>>)
      [] Schema[def].Kind = "INTERFACE" ->
            newTypeUnion(SelectSeq2(order,
                {c \in TypeNames : Schema[c].Kind = "OBJECT"
                                   /\ def \in Range(Schema[c].Interfaces)}))
      [] Schema[def].Kind = "UNION" -> newTypeUnion(Schema[def].Types)

\* toConcreteUnion panics: on a nil definition (def.Kind dereferences nil)
\* and on a scalar, enum or input type.
Panics(def) == def = "" \/ Schema[def].Kind \notin {"OBJECT", "INTERFACE", "UNION"}

\* ----------------------------------------------------- alternatives builder

\* newAlternativesBuilder allocating an object builder for the first member
\* of self only.
newAlternativesBuilder_firstOnly(self) ==
    [ self         |-> self,
      fields       |-> EmptyMap,
      objects      |-> [n \in (IF self.definitions = <<>> THEN {} ELSE {self.definitions[1]})
                           |-> [fields |-> {}, fragments |-> {}]],
      alternatives |-> MapSet(EmptyMap, self.canonical, self) ]

newAlternativesBuilder(self) ==
    [ self         |-> self,
      fields       |-> EmptyMap,
      objects      |-> [n \in Range(self.definitions) |-> [fields |-> {}, fragments |-> {}]],
      alternatives |-> MapSet(EmptyMap, self.canonical, self) ]

\* ------------------------------------------------------------ output text

RECURSIVE FieldsText(_, _)
\* The loop of writeObject (lines 363-366) and of buildVariablesType
\* (lines 329-332): "%s: %s; " for each name, with its type in types.
FieldsText(names, types) ==
    IF names = <<>> THEN <<>>
    ELSE <<Head(names), ":", SP>> \o types[Head(names)] \o <<";", SP>>
         \o FieldsText(Tail(names), types)

RECURSIVE FragmentsText(_)
\* The loop of writeObject (lines 368-370): " & Fragment_%s_Data".
FragmentsText(names) ==
    IF names = <<>> THEN <<>>
    ELSE <<SP, "&", SP, "Fragment_" \o Head(names) \o "_Data">> \o FragmentsText(Tail(names))

\* writeObject reading the object builder of the union's first member only.
writeObject_firstMember(b, types) ==
    LET first         == IF types.definitions = <<>> THEN {} ELSE {types.definitions[1]}
        fieldAliases  == SortStrings(UNION {b.objects[d].fields : d \in first})
        fragmentNames == SortStrings(UNION {b.objects[d].fragments : d \in first})
    IN <<"{", SP, "__typename:", SP>> \o types.canonical \o <<";", SP>>
       \o FieldsText(fieldAliases, b.fields)
       \o <<"}">>
       \o FragmentsText(fragmentNames)

\* writeObject with the discriminant typed string, whatever the union.
writeObject_untyped(b, types) ==
    LET fieldAliases  == SortStrings(UNION {b.objects[d].fields : d \in Range(types.definitions)})
        fragmentNames == SortStrings(UNION {b.objects[d].fragments : d \in Range(types.definitions)})
    IN <<"{", SP, "__typename:", SP, "string", ";", SP>>
       \o FieldsText(fieldAliases, b.fields)
       \o <<"}">>
       \o FragmentsText(fragmentNames)

\* Typer.writeObject, the text it writes.  The aliases and fragment names
\* are collected from Go maps and then sorted, so they are sets here.
writeObject(b, types) ==
    LET fieldAliases  == SortStrings(UNION {b.objects[d].fields : d \in Range(types.definitions)})
        fragmentNames == SortStrings(UNION {b.objects[d].fragments : d \in Range(types.definitions)})
    IN <<"{", SP, "__typename:", SP>> \o types.canonical \o <<";", SP>>
       \o FieldsText(fieldAliases, b.fields)
       \o <<"}">>
       \o FragmentsText(fragmentNames)

RECURSIVE ObjectsText(_, _)
ObjectsText(b, typenameUnions) ==
    IF typenameUnions = <<>> THEN <<>>
    ELSE writeObject(b, b.alternatives[Head(typenameUnions)])
         \o (IF Len(typenameUnions) > 1 THEN <<SP, "|", SP>> ELSE <<>>)
         \o ObjectsText(b, Tail(typenameUnions))

\* buildDataType without sort.Strings (line 309): the segments as the range
\* over t.alternatives gives them, here the unions holding the first
\* enumerated member of self before the others.
buildDataType_enumerated(b) ==
    IF DOMAIN b.alternatives = {}
    THEN <<"/*", SP, "buildDataType", SP, "*/", SP, "never">>
    ELSE LET first == {k \in DOMAIN b.alternatives :
                          /\ b.self.definitions # <<>>
                          /\ b.self.definitions[1] \in Range(b.alternatives[k].definitions)}
         IN ObjectsText(b, SortTexts(first) \o SortTexts(DOMAIN b.alternatives \ first))

\* Typer.buildDataType on the current builder b.
buildDataType(b) ==
    IF DOMAIN b.alternatives = {}
    THEN <<"/*", SP, "buildDataType", SP, "*/", SP, "never">>
    ELSE ObjectsText(b, SortTexts(DOMAIN b.alternatives))

\* Typer.buildVariablesType.
buildVariablesType(vars) ==
    <<"{", SP>> \o FieldsText(SortStrings(DOMAIN vars), vars) \o <<"}">>

\* buildDocumentType appending the Variables declaration before the Data
\* declaration.
buildDocumentType_swapped(prefix, name, dataType, vars, decls) ==
    LET variablesType == buildVariablesType(vars)
        dataName      == prefix \o "_" \o name \o "_Data"
        variablesName == prefix \o "_" \o name \o "_Variables"
    IN IF name # ""
       THEN [ Declarations |->
                decls \o << <<"export", SP, "type", SP, variablesName, SP, "=", SP>>
                              \o variablesType \o <<";">>,
                            <<"export", SP, "type", SP, dataName, SP, "=", SP>>
                              \o dataType \o <<";">> >>,
              documentType |->
                <<"{", SP, "data:", SP, dataName, ";", SP, "variables:", SP,
                  variablesName, ";", SP, "}">> ]
       ELSE [ Declarations |-> decls,
              documentType |->
                <<"{", SP, "data:", SP>> \o dataType \o <<";", SP, "variables:", SP>>
                \o variablesType \o <<";", SP, "}">> ]

\* Typer.buildDocumentType: the declarations after the call and the
\* document type returned.
buildDocumentType(prefix, name, dataType, vars, decls) ==
    LET variablesType == buildVariablesType(vars)
        dataName      == prefix \o "_" \o name \o "_Data"
        variablesName == prefix \o "_" \o name \o "_Variables"
    IN IF name # ""
       THEN [ Declarations |->
                decls \o << <<"export", SP, "type", SP, dataName, SP, "=", SP>>
                              \o dataType \o <<";">>,
                            <<"export", SP, "type", SP, variablesName, SP, "=", SP>>
                              \o variablesType \o <<";">> >>,
              documentType |->
                <<"{", SP, "data:", SP, dataName, ";", SP, "variables:", SP,
                  variablesName, ";", SP, "}">> ]
       ELSE [ Declarations |-> decls,
              documentType |->
                <<"{", SP, "data:", SP>> \o dataType \o <<";", SP, "variables:", SP>>
                \o variablesType \o <<";", SP, "}">> ]

\* ---------------------------------------------------------- type wrapping

\* beginType's leafName: the named type at the end of the chain.
leafNameOf(typ) == typ[Len(typ)].NamedType

RECURSIVE OpenParens(_, _)
\* beginType's end, lines 452-456.
OpenParens(stack, needsParens) ==
    IF stack = <<>> THEN <<>>
    ELSE (IF (needsParens /\ ~Head(stack).NonNull) \/ Head(stack).Elem
          THEN <<"(">> ELSE <<>>)
         \o OpenParens(Tail(stack), needsParens)

RECURSIVE CloseWrappers(_, _, _)
\* beginType's end, lines 458-472, from wrapper i down to the outermost.
CloseWrappers(stack, i, needsParens) ==
    IF i = 0 THEN <<>>
    ELSE LET wrapper == stack[i]
         IN (IF needsParens
             THEN (IF ~wrapper.NonNull \/ wrapper.Elem THEN <<")">> ELSE <<>>)
                  \o (IF wrapper.Elem THEN <<"[]">> ELSE <<>>)
             ELSE <<>>)
            \o (IF ~wrapper.NonNull THEN <<SP, "|", SP, "null">> ELSE <<>>)
            \o CloseWrappers(stack, i - 1, needsParens \/ ~wrapper.NonNull)

\* The closure writing the nullable marker of the outermost level only.
endType_outermost(stack, unwrapped) ==
    OpenParens(stack, Contains(unwrapped, SP)) \o unwrapped
    \o CloseWrappers(<<stack[1]>> \o [i \in 1..(Len(stack) - 1) |->
                          [stack[i + 1] EXCEPT !.NonNull = TRUE]],
                     Len(stack), Contains(unwrapped, SP))

\* The closure without its parentheses.
endType_unparenthesized(stack, unwrapped) ==
    SelectSeq(OpenParens(stack, Contains(unwrapped, SP)) \o unwrapped
              \o CloseWrappers(stack, Len(stack), Contains(unwrapped, SP)),
              LAMBDA token : token \notin {"(", ")"})

\* The closure beginType returns, applied to the unwrapped text.
endType(stack, unwrapped) ==
    LET needsParens == Contains(unwrapped, SP)
    IN OpenParens(stack, needsParens) \o unwrapped
       \o CloseWrappers(stack, Len(stack), needsParens)

\* visitType entering a custom scalar in the registry only once.
visitType_deduplicating(typ, scalars) ==
    LET leafName == leafNameOf(typ)
    IN CASE leafName \in {"String", "ID"} ->
              [ text |-> endType(typ, <<"string">>), Scalars |-> scalars ]
         [] leafName = "Boolean" ->
              [ text |-> endType(typ, <<"boolean">>), Scalars |-> scalars ]
         [] leafName \in {"Int", "Float"} ->
              [ text |-> endType(typ, <<"number">>), Scalars |-> scalars ]
         [] OTHER ->
              [ text |-> endType(typ, <<leafName>>),
                Scalars |-> IF leafName \in Range(scalars) THEN scalars
                            ELSE Append(scalars, leafName) ]

\* Typer.visitType: the text and the scalar registry after the call.
visitType(typ, scalars) ==
    LET leafName == leafNameOf(typ)
    IN CASE leafName \in {"String", "ID"} ->
              [ text |-> endType(typ, <<"string">>), Scalars |-> scalars ]
         [] leafName = "Boolean" ->
              [ text |-> endType(typ, <<"boolean">>), Scalars |-> scalars ]
         [] leafName \in {"Int", "Float"} ->
              [ text |-> endType(typ, <<"number">>), Scalars |-> scalars ]
         [] OTHER ->
              [ text |-> endType(typ, <<leafName>>), Scalars |-> Append(scalars, leafName) ]

\* visitVariableDefinition without the test of lines 381-384.
visitVariableDefinition_rebinding(def, st) ==
    LET r == visitType(def.Type, st.Scalars)
    IN [ variables |-> MapSet(st.variables, def.Variable, r.text),
         Scalars   |-> r.Scalars ]

\* Typer.visitVariableDefinition on the state st = [variables, Scalars].
visitVariableDefinition(def, st) ==
    IF def.Variable \in DOMAIN st.variables
    THEN st
    ELSE LET r == visitType(def.Type, st.Scalars)
         IN [ variables |-> MapSet(st.variables, def.Variable, r.text),
              Scalars   |-> r.Scalars ]

RECURSIVE visitVariableDefinitions(_, _)
visitVariableDefinitions(vars, st) ==
    IF vars = <<>> THEN st
    ELSE visitVariableDefinitions(Tail(vars), visitVariableDefinition(Head(vars), st))

\* Typer.visitValue: only a variable reference does anything.
visitValue(v, st) ==
    IF v.Kind = "Variable" THEN visitVariableDefinition(v.VariableDefinition, st) ELSE st

RECURSIVE visitArgumentList(_, _)
visitArgumentList(args, st) ==
    IF args = <<>> THEN st
    ELSE visitArgumentList(Tail(args), visitValue(Head(args), st))

\* -------------------------------------------------------------- documents

\* A selection node as the parser and validator hand it over.  Type is
\* node.Definition.Type of a field; TypeCondition is node.TypeCondition of
\* an inline fragment and node.Definition.TypeCondition of a spread, whose
\* SelectionSet is node.Definition.SelectionSet.
Field(parent, name, alias, args, sels) ==
    [ Kind |-> "Field", Name |-> name, Alias |-> alias, Arguments |-> args,
      Type |-> Schema[parent].Fields[name], TypeCondition |-> "", SelectionSet |-> sels ]

Leaf(parent, name) == Field(parent, name, "", <<>>, <<>>)

FragmentSpread(name, cond, sels) ==
    [ Kind |-> "FragmentSpread", Name |-> name, Alias |-> "", Arguments |-> <<>>,
      Type |-> <<>>, TypeCondition |-> cond, SelectionSet |-> sels ]

InlineFragment(cond, sels) ==
    [ Kind |-> "InlineFragment", Name |-> "", Alias |-> "", Arguments |-> <<>>,
      Type |-> <<>>, TypeCondition |-> cond, SelectionSet |-> sels ]

VariableDefinition(name, type) == [ Variable |-> name, Type |-> type ]

\* An argument value: a variable reference, bound by the validator to its
\* definition, or a literal.
VariableValue(name, type) ==
    [ Kind |-> "Variable", VariableDefinition |-> VariableDefinition(name, type) ]

LiteralValue == [ Kind |-> "StringValue", VariableDefinition |-> VariableDefinition("", <<>>) ]

OperationDefinition(operation, name, vars, sels) ==
    [ Operation |-> operation, Name |-> name, VariableDefinitions |-> vars,
      SelectionSet |-> sels ]

FragmentDefinition(name, cond, sels) ==
    [ Name |-> name, TypeCondition |-> cond, SelectionSet |-> sels ]

\* A query string with what parser.ParseQuery and validator.Validate make
\* of it: a parse error (<<>> for none), the validator's diagnostics, and the
\* definitions.
Document(gql, ops, frags) ==
    [ gql |-> gql, parseError |-> <<>>, diagnostics |-> <<>>,
      Operations |-> ops, Fragments |-> frags ]

Rejected(gql, parseError, diagnostics, ops, frags) ==
    [ gql |-> gql, parseError |-> parseError, diagnostics |-> diagnostics,
      Operations |-> ops, Fragments |-> frags ]

StringNonNull == NonNullType(NamedType("String"))

NamedFragment == FragmentDefinition("Named", "Named", <<Leaf("Named", "name")>>)

PetFragment == FragmentDefinition("PetF", "Pet", <<Leaf("Pet", "species")>>)

SpreadOf(frag) == FragmentSpread(frag.Name, frag.TypeCondition, frag.SelectionSet)

NamedField(sels) == Field("Query", "named", "", <<LiteralValue>>, sels)

\* The inputs of TestTyper.
DocHello ==
    Document("{ hello }",
        <<OperationDefinition("query", "", <<>>, <<Leaf("Query", "hello")>>)>>, <<>>)

DocGetUser ==
    Document("query GetUser($userId: String!) { user: userById(id: $userId) { name, bio: profile } }",
        <<OperationDefinition("query", "GetUser",
            <<VariableDefinition("userId", StringNonNull)>>,
            <<Field("Query", "userById", "user", <<VariableValue("userId", StringNonNull)>>,
                <<Leaf("User", "name"), Field("User", "profile", "bio", <<>>, <<>>)>>)>>)>>,
        <<>>)

DocAllUsers ==
    Document("{ allUsers { name } }",
        <<OperationDefinition("query", "", <<>>,
            <<Field("Query", "allUsers", "", <<>>, <<Leaf("User", "name")>>)>>)>>, <<>>)

DocUserFragment ==
    Document("fragment User on User { name, profile }", <<>>,
        <<FragmentDefinition("User", "User", <<Leaf("User", "name"), Leaf("User", "profile")>>)>>)

DocClock ==
    Document("query Clock { now }",
        <<OperationDefinition("query", "Clock", <<>>, <<Leaf("Query", "now")>>)>>, <<>>)

DocFred ==
    Document("query Fred { named(name: \"fred\") { ...Named, ... on Pet { species } } } fragment Named on Named { name }",
        <<OperationDefinition("query", "Fred", <<>>,
            <<NamedField(<<SpreadOf(NamedFragment),
                           InlineFragment("Pet", <<Leaf("Pet", "species")>>)>>)>>)>>,
        <<NamedFragment>>)

\* Further inputs: a union-typed field, a mutation, a subscription, two fragments defined
\* in the opposite order of their use, a nullable interface-typed field with
\* leaf fields only, and an inline fragment without a type condition.
DocStatus ==
    Document("{ status { ... on Green { ok } ... on Red { ok message } } }",
        <<OperationDefinition("query", "", <<>>,
            <<Field("Query", "status", "", <<>>,
                <<InlineFragment("Green", <<Leaf("Green", "ok")>>),
                  InlineFragment("Red", <<Leaf("Red", "ok"), Leaf("Red", "message")>>)>>)>>)>>,
        <<>>)

DocRename ==
    Document("mutation Rename($n: String!) { rename(name: $n) { name } }",
        <<OperationDefinition("mutation", "Rename",
            <<VariableDefinition("n", StringNonNull)>>,
            <<Field("Mutation", "rename", "", <<VariableValue("n", StringNonNull)>>,
                <<Leaf("User", "name")>>)>>)>>,
        <<>>)

DocOnUser ==
    Document("subscription OnUser { userChanged { name } }",
        <<OperationDefinition("subscription", "OnUser", <<>>,
            <<Field("Subscription", "userChanged", "", <<>>, <<Leaf("User", "name")>>)>>)>>,
        <<>>)

DocBoth ==
    Document("query Both { named(name: \"x\") { ...Named ...PetF } } fragment PetF on Pet { species } fragment Named on Named { name }",
        <<OperationDefinition("query", "Both", <<>>,
            <<NamedField(<<SpreadOf(NamedFragment), SpreadOf(PetFragment)>>)>>)>>,
        <<PetFragment, NamedFragment>>)

DocNamedOnly ==
    Document("{ named(name: \"x\") { name } }",
        <<OperationDefinition("query", "", <<>>,
            <<NamedField(<<Leaf("Named", "name")>>)>>)>>, <<>>)

DocTypeless ==
    Document("{ currentUser { ... { name } } }",
        <<OperationDefinition("query", "", <<>>,
            <<Field("Query", "currentUser", "", <<>>,
                <<InlineFragment("", <<Leaf("User", "name")>>)>>)>>)>>, <<>>)

\* Inputs VisitString rejects: a parse error, a validation diagnostic, no
\* definition, two operations, two fragments; and one whose only
\* diagnostic is an unused variable.
DocParseError ==
    Rejected("{", <<"input:1:", "Expected", "Name,", "found", "<EOF>">>, <<>>, <<>>, <<>>)

DocUndefinedField ==
    Rejected("{ notARealField }", <<>>,
        << <<"input:1:", "Cannot", "query", "field", "\"notARealField\"", "on", "type",
             "\"Query\".">> >>,
        <<OperationDefinition("query", "", <<>>, <<>>)>>, <<>>)

DocEmpty == Document("", <<>>, <<>>)

DocTwoOperations ==
    Document("query A { hello } query B { hello }",
        <<OperationDefinition("query", "A", <<>>, <<Leaf("Query", "hello")>>),
          OperationDefinition("query", "B", <<>>, <<Leaf("Query", "hello")>>)>>, <<>>)

DocThreeOperations ==
    Document("query A { hello } query B { hello } query C { hello }",
        <<OperationDefinition("query", "A", <<>>, <<Leaf("Query", "hello")>>),
          OperationDefinition("query", "B", <<>>, <<Leaf("Query", "hello")>>),
          OperationDefinition("query", "C", <<>>, <<Leaf("Query", "hello")>>)>>, <<>>)

DocTwoFragments ==
    Document("fragment PetF on Pet { species } fragment Named on Named { name }",
        <<>>, <<PetFragment, NamedFragment>>)

DocUnusedVariable ==
    Rejected("query Unused($n: String!) { hello }", <<>>,
        << <<"input:1:", "Variable", "\"$n\"", "is", "never", "used.">> >>,
        <<OperationDefinition("query", "Unused",
            <<VariableDefinition("n", StringNonNull)>>, <<Leaf("Query", "hello")>>)>>, <<>>)

RECURSIVE ChainsOfDepth(_)
\* The types with d list levels around a String, an Int or an Instant,
\* every level nullable or not.
ChainsOfDepth(d) ==
    IF d = 0
    THEN UNION {{NamedType(n), NonNullType(NamedType(n))} : n \in {"String", "Int", "Instant"}}
    ELSE UNION {{ListType(t), NonNullType(ListType(t))} : t \in ChainsOfDepth(d - 1)}

Chains == UNION {ChainsOfDepth(d) : d \in 0..MaxDepth}

RECURSIVE TypeSrc(_)
\* ast.Type as the query text spells it.
TypeSrc(t) ==
    (IF t[1].Elem THEN "[" \o TypeSrc(Tail(t)) \o "]" ELSE t[1].NamedType)
    \o (IF t[1].NonNull THEN "!" ELSE "")

\* An operation that defines the variable $v of type t (and does not use
\* it, which the validator reports).
DocVariable(t) ==
    Rejected("query V($v: " \o TypeSrc(t) \o ") { hello }", <<>>,
        << <<"input:1:", "Variable", "\"$v\"", "is", "never", "used.">> >>,
        <<OperationDefinition("query", "V",
            <<VariableDefinition("v", t)>>, <<Leaf("Query", "hello")>>)>>, <<>>)

VariableDocuments == { DocVariable(t) : t \in Chains }

\* Leaf fields of every built-in scalar but Boolean and of two custom
\* scalars, one of them selected twice.
DocLeaves ==
    Document("query Leaves { viewerId uptime now homepage sum later: now }",
        <<OperationDefinition("query", "Leaves", <<>>,
            <<Leaf("Query", "viewerId"), Leaf("Query", "uptime"), Leaf("Query", "now"),
              Leaf("Query", "homepage"), Leaf("Query", "sum"),
              Field("Query", "now", "later", <<>>, <<>>)>>)>>, <<>>)

\* Two variables, defined in the opposite of their sorted order; the one of
\* a custom scalar type is referred to by two arguments.
DocFormat ==
    Document("query Format($t: Instant!, $n: String!) { a: format(t: $t) b: format(t: $t) userById(id: $n) { name } }",
        <<OperationDefinition("query", "Format",
            <<VariableDefinition("t", NonNullType(NamedType("Instant"))),
              VariableDefinition("n", StringNonNull)>>,
            <<Field("Query", "format", "a",
                    <<VariableValue("t", NonNullType(NamedType("Instant")))>>, <<>>),
              Field("Query", "format", "b",
                    <<VariableValue("t", NonNullType(NamedType("Instant")))>>, <<>>),
              Field("Query", "userById", "", <<VariableValue("n", StringNonNull)>>,
                    <<Leaf("User", "name")>>)>>)>>,
        <<>>)

\* The same selections in an anonymous operation.
DocFormatAnonymous ==
    Document("query ($t: Instant!, $n: String!) { a: format(t: $t) userById(id: $n) { name } }",
        <<OperationDefinition("query", "",
            <<VariableDefinition("t", NonNullType(NamedType("Instant"))),
              VariableDefinition("n", StringNonNull)>>,
            <<Field("Query", "format", "a",
                    <<VariableValue("t", NonNullType(NamedType("Instant")))>>, <<>>),
              Field("Query", "userById", "", <<VariableValue("n", StringNonNull)>>,
                    <<Leaf("User", "name")>>)>>)>>,
        <<>>)

\* The meta field __typename as the validator hands it over: its
\* definition is made up on the spot, with the type String.
TypenameField ==
    [ Kind |-> "Field", Name |-> "__typename", Alias |-> "", Arguments |-> <<>>,
      Type |-> NamedType("String"), TypeCondition |-> "", SelectionSet |-> <<>> ]

\* The explicit selection of __typename of the package's test.
DocTypename ==
    Document("{ currentUser { __typename } }",
        <<OperationDefinition("query", "", <<>>,
            <<Field("Query", "currentUser", "", <<>>, <<TypenameField>>)>>)>>, <<>>)

\* A field whose type is the interface without implementers.
DocNode ==
    Document("{ node { id } }",
        <<OperationDefinition("query", "", <<>>,
            <<Field("Query", "node", "", <<>>, <<Leaf("Node", "id")>>)>>)>>, <<>>)

\* The same field in front of an interface-typed field with an inline
\* fragment on the interface itself.
DocNodeNamed ==
    Document("{ node { id } named(name: \"x\") { ... on Named { name } } }",
        <<OperationDefinition("query", "", <<>>,
            <<Field("Query", "node", "", <<>>, <<Leaf("Node", "id")>>),
              NamedField(<<InlineFragment("Named", <<Leaf("Named", "name")>>)>>)>>)>>, <<>>)

\* A fragment that spreads a fragment defined behind it.
OuterFragment == FragmentDefinition("Outer", "Pet", <<SpreadOf(NamedFragment)>>)

DocNested ==
    Document("query Nested { named(name: \"x\") { ...Outer } } fragment Outer on Pet { ...Named } fragment Named on Named { name }",
        <<OperationDefinition("query", "Nested", <<>>,
            <<NamedField(<<SpreadOf(OuterFragment)>>)>>)>>,
        <<OuterFragment, NamedFragment>>)

\* A composite field selected under a type condition: the frame of owner is
\* opened while the frame of named is narrowed to Pet.
DocOwner ==
    Document("{ named(name: \"x\") { name ... on Pet { owner { name } } } }",
        <<OperationDefinition("query", "", <<>>,
            <<NamedField(<<Leaf("Named", "name"),
                           InlineFragment("Pet",
                               <<Field("Pet", "owner", "", <<>>,
                                   <<Leaf("User", "name")>>)>>)>>)>>)>>, <<>>)

\* Documents with several diagnostics: unused variables among undefined
\* fields; an unused fragment beside the operation.
DocMixedDiagnostics ==
    Rejected("query M($n: String!, $m: Int) { notARealField other }", <<>>,
        << <<"input:1:", "Variable", "\"$n\"", "is", "never", "used.">>,
           <<"input:1:", "Cannot", "query", "field", "\"notARealField\"", "on", "type",
             "\"Query\".">>,
           <<"input:1:", "Variable", "\"$m\"", "is", "never", "used.">>,
           <<"input:1:", "Cannot", "query", "field", "\"other\"", "on", "type",
             "\"Query\".">> >>,
        <<OperationDefinition("query", "M", <<>>, <<>>)>>, <<>>)

DocUnusedFragment ==
    Rejected("{ hello } fragment Named on Named { name }", <<>>,
        << <<"input:1:", "Fragment", "\"Named\"", "is", "never", "used.">> >>,
        <<OperationDefinition("query", "", <<>>, <<Leaf("Query", "hello")>>)>>,
        <<NamedFragment>>)

\* The selections drawn for the selection set of the interface-typed field
\* `named`: a leaf, the two fragment spreads, and inline fragments, also
\* nested ones, on the interface and on its implementing types.
NamedItems ==
    { [ src |-> "name", node |-> Leaf("Named", "name"), frags |-> {} ],
      [ src |-> "...Named", node |-> SpreadOf(NamedFragment), frags |-> {"Named"} ],
      [ src |-> "...PetF", node |-> SpreadOf(PetFragment), frags |-> {"PetF"} ],
      [ src |-> "... on Pet { species }",
        node |-> InlineFragment("Pet", <<Leaf("Pet", "species")>>), frags |-> {} ],
      [ src |-> "... on User { profile }",
        node |-> InlineFragment("User", <<Leaf("User", "profile")>>), frags |-> {} ],
      [ src |-> "... on Named { name }",
        node |-> InlineFragment("Named", <<Leaf("Named", "name")>>), frags |-> {} ],
      [ src |-> "... on Pet { ... on Named { name } }",
        node |-> InlineFragment("Pet", <<InlineFragment("Named", <<Leaf("Named", "name")>>)>>),
        frags |-> {} ],
      [ src |-> "... on Named { ... on Pet { species } }",
        node |-> InlineFragment("Named", <<InlineFragment("Pet", <<Leaf("Pet", "species")>>)>>),
        frags |-> {} ],
      [ src |-> "... on Pet { ...Named }",
        node |-> InlineFragment("Pet", <<SpreadOf(NamedFragment)>>), frags |-> {"Named"} ],
      [ src |-> "... on Named { ...PetF }",
        node |-> InlineFragment("Named", <<SpreadOf(PetFragment)>>), frags |-> {"PetF"} ] }

RECURSIVE ItemsSrc(_)
ItemsSrc(items) ==
    IF items = <<>> THEN "" ELSE Head(items).src \o " " \o ItemsSrc(Tail(items))

GeneratedDocument(items) ==
    LET used == UNION {items[i].frags : i \in DOMAIN items}
    IN Document(
        "{ named(name: \"x\") { " \o ItemsSrc(items) \o "} }"
          \o (IF "Named" \in used THEN " fragment Named on Named { name }" ELSE "")
          \o (IF "PetF" \in used THEN " fragment PetF on Pet { species }" ELSE ""),
        <<OperationDefinition("query", "", <<>>,
            <<NamedField([i \in DOMAIN items |-> items[i].node])>>)>>,
        (IF "Named" \in used THEN <<NamedFragment>> ELSE <<>>)
          \o (IF "PetF" \in used THEN <<PetFragment>> ELSE <<>>))

GeneratedDocuments ==
    { GeneratedDocument(items) : items \in UNION {[1..n -> NamedItems] : n \in 1..MaxSel} }

\* Documents visited alone, and documents visited in runs of up to MaxDocs.
SingleDocuments ==
    { DocAllUsers, DocStatus, DocRename, DocOnUser, DocBoth, DocUserFragment, DocTypeless,
      DocUndefinedField, DocEmpty, DocTwoOperations, DocThreeOperations, DocTwoFragments,
      DocUnusedVariable, DocMixedDiagnostics, DocUnusedFragment, DocLeaves,
      DocFormat, DocFormatAnonymous, DocTypename,
      DocNode, DocNodeNamed, DocOwner, DocNested }
    \cup GeneratedDocuments \cup VariableDocuments

RunDocuments == { DocHello, DocGetUser, DocNamedOnly, DocClock, DocFred, DocParseError }

\* Documents VisitString rejects, each also visited between two documents
\* it accepts.
FailingDocuments ==
    { DocParseError, DocUndefinedField, DocEmpty, DocTwoOperations, DocTwoFragments }

Inputs ==
    UNION {[1..n -> RunDocuments] : n \in 0..MaxDocs}
    \cup { <<d>> : d \in SingleDocuments }
    \cup { <<DocFred, d, DocClock>> : d \in FailingDocuments }

\* An input file as generator.visitInput meets it: err tells that
\* ioutil.ReadFile ("reading") or ExtractQueriesFromBytes ("extracting")
\* failed, queries are the extracted query strings.
InputFile(queries) == [ err |-> "", queries |-> queries ]

FailedFile(err) == [ err |-> err, queries |-> <<>> ]

\* The runs: one file holding the queries of an input, and runs of two
\* files of which one cannot be read or extracted from.
Files ==
    { <<InputFile(queries)>> : queries \in Inputs }
    \cup { <<FailedFile("reading")>>, <<FailedFile("extracting")>>,
           <<FailedFile("reading"), InputFile(<<DocHello>>)>>,
           <<InputFile(<<DocHello>>), FailedFile("extracting")>>,
           <<InputFile(<<DocHello>>), InputFile(<<DocParseError, DocClock>>)>>,
           <<InputFile(<<>>), InputFile(<<DocGetUser>>)>> }

\* ------------------------------------------------------------------ state

VARIABLES
    input,          \* the query strings still to be handed to VisitString
    Scalars,        \* GeneratedTypes.Scalars
    QueryMap,       \* GeneratedTypes.QueryMap
    Declarations,   \* GeneratedTypes.Declarations
    builders,       \* t.alternativesBuilder (the head) over the oldBuilder
                    \*   values the startObject closures hold; <<>> is nil
    variables,      \* t.variables: <<>> is nil, <<m>> the map m
    stack,          \* what is left to run of the current VisitString call
    typ,            \* the document type the last definition returned
    result,         \* what the last VisitString call returned
    panicked,       \* a panic has ended the process
    hist,           \* history: for each builder of builders, the position
                    \*   it was made for, its first self, the selfs it has
                    \*   had, and the fragments it is inside
    left,           \* history: the frame last left, with the text built
    calls,          \* history: the VisitString calls that have returned
    visiting,       \* history: the document of the last VisitString call
    files,          \* the input files of the run (generator.run's inputPaths)
    nextFile,       \* the index of the next file generator.run visits
    errors,         \* generator.errors
    exitStatus,     \* the status the process exited with; -1 while it runs
    given,          \* history: the bytes FromBytes was called with
    bs,             \* FromBytes: the bytes still to be scanned
    res,            \* FromBytes: the strings found
    idx,            \* FromBytes: i, the offset in bs of the next rune
    pc,             \* FromBytes: "scan" at the head of the outer loop, "rune"
                    \*   at the head of the inner loop, "done" when returned
    ret             \* what FromBytes returned

vars == << input, Scalars, QueryMap, Declarations, builders, variables, stack,
           typ, result, panicked, hist, left, calls, visiting,
           files, nextFile, errors, exitStatus, given, bs, res, idx, pc, ret >>

\* The state of a call of FromBytes.
extractor == << given, bs, res, idx, pc, ret >>

\* The state of the generator around the Typer.
generator == << files, nextFile, errors, exitStatus >>

generated == << Scalars, QueryMap, Declarations >>

\* No call of FromBytes is followed.
NoExtraction ==
    /\ given = <<>>
    /\ bs = <<>>
    /\ res = <<>>
    /\ idx = 0
    /\ pc = "done"
    /\ ret = [res |-> <<>>, err |-> ""]

Init ==
    /\ files \in Files
    /\ NoExtraction
    /\ nextFile = 1
    /\ errors = 0
    /\ exitStatus = -1
    /\ input = <<>>
    /\ Scalars = <<>>
    /\ QueryMap = <<>>
    /\ Declarations = <<>>
    /\ builders = <<>>
    /\ variables = <<>>
    /\ stack = <<>>
    /\ typ = <<>>
    /\ result = [typ |-> <<>>, err |-> <<>>]
    /\ panicked = FALSE
    /\ hist = <<>>
    /\ left = <<>>
    /\ calls = <<>>
    /\ visiting = <<>>

\* ------------------------------------------------------- document driver

\* strings.HasSuffix on messages, which are sequences of words.
HasSuffix(msg, suffix) ==
    /\ Len(msg) >= Len(suffix)
    /\ SubSeq(msg, Len(msg) - Len(suffix) + 1, Len(msg)) = suffix

\* ignoreError with its default case only.
ignoreError_never(err) == FALSE

ignoreError(err) == HasSuffix(err, <<"is", "never", "used.">>)

RECURSIVE filterErrors(_)
filterErrors(errs) ==
    IF errs = <<>> THEN <<>>
    ELSE (IF ignoreError(Head(errs)) THEN <<>> ELSE <<Head(errs)>>)
         \o filterErrors(Tail(errs))

RECURSIVE ListError(_)
\* gqlerror.List's Error(): every diagnostic, each followed by a newline.
ListError(errs) ==
    IF errs = <<>> THEN <<>> ELSE Head(errs) \o <<"\n">> \o ListError(Tail(errs))

\* Typer.loadQuery: the error it returns, <<>> for none.
loadQuery(doc) ==
    IF doc.parseError # <<>> THEN doc.parseError
    ELSE LET errs == filterErrors(doc.diagnostics)
         IN IF Len(errs) > 0 THEN ListError(errs) ELSE <<>>

\* visitDocument refusing every document that does not hold exactly one
\* definition.
visitDocumentError_single(doc) ==
    LET n == Len(doc.Operations) + Len(doc.Fragments)
    IN CASE n = 0 -> <<"no", "definitions">>
         [] n = 1 -> <<>>
         [] OTHER -> <<"expected", "exactly", "one", "definition,", "found", ToString(n)>>

\* Typer.visitDocument: the error it returns, <<>> for none.
visitDocumentError(doc) ==
    CASE Len(doc.Operations) = 0 ->
            (CASE Len(doc.Fragments) = 0 -> <<"no", "definitions">>
               [] Len(doc.Fragments) = 1 -> <<>>
               [] OTHER -> <<"expected", "at", "most", "one", "fragment", "definition,",
                             "found", ToString(Len(doc.Fragments))>>)
      [] Len(doc.Operations) = 1 -> <<>>
      [] OTHER -> <<"expected", "at", "most", "one", "operation", "definition,",
                    "found", ToString(Len(doc.Operations))>>

\* visitDocument visiting the operation before the fragments.
visitDocumentCalls_operationFirst(doc) ==
    IF Len(doc.Operations) = 0
    THEN << [op |-> "visitFragmentDefinition", def |-> doc.Fragments[1]] >>
    ELSE << [op |-> "visitOperationDefinition", def |-> doc.Operations[1]] >>
         \o [i \in 1..Len(doc.Fragments) |->
               [op |-> "visitFragmentDefinition", def |-> doc.Fragments[i]]]

\* visitDocument visiting the first fragment only in front of the operation.
visitDocumentCalls_firstFragment(doc) ==
    IF Len(doc.Operations) = 0
    THEN << [op |-> "visitFragmentDefinition", def |-> doc.Fragments[1]] >>
    ELSE (IF doc.Fragments = <<>> THEN <<>>
          ELSE << [op |-> "visitFragmentDefinition", def |-> doc.Fragments[1]] >>)
         \o << [op |-> "visitOperationDefinition", def |-> doc.Operations[1]] >>

\* Typer.visitDocument: the definitions it visits, in order.
visitDocumentCalls(doc) ==
    IF Len(doc.Operations) = 0
    THEN << [op |-> "visitFragmentDefinition", def |-> doc.Fragments[1]] >>
    ELSE [i \in 1..Len(doc.Fragments) |->
            [op |-> "visitFragmentDefinition", def |-> doc.Fragments[i]]]
         \o << [op |-> "visitOperationDefinition", def |-> doc.Operations[1]] >>

visitSelectionSet(selections) ==
    [i \in 1..Len(selections) |-> [op |-> "visitSelection", node |-> selections[i]]]

Running == ~panicked /\ stack # <<>>

\* VisitString entering the rejected query in QueryMap, with the type
\* unknown.
VisitString_recording ==
    /\ ~panicked
    /\ stack = <<>>
    /\ input # <<>>
    /\ LET doc == Head(input)
           loadErr == loadQuery(doc)
           err == IF loadErr # <<>> THEN <<"loading", "query:">> \o loadErr
                  ELSE visitDocumentError(doc)
       IN /\ input' = Tail(input)
          /\ visiting' = <<doc>>
          /\ IF err # <<>>
             THEN /\ result' = [typ |-> <<>>, err |-> err]
                  /\ calls' = Append(calls, [gql |-> doc.gql, err |-> err, typ |-> <<>>])
                  /\ stack' = stack
                  /\ QueryMap' = Append(QueryMap, [Query |-> doc.gql, Type |-> <<"unknown">>])
             ELSE /\ stack' = visitDocumentCalls(doc)
                               \o << [op |-> "VisitString", gql |-> doc.gql] >>
                  /\ UNCHANGED << result, calls, QueryMap >>
    /\ UNCHANGED << Scalars, Declarations, builders, variables, typ, panicked, hist, left >>
    /\ UNCHANGED << generator, extractor >>

\* Typer.VisitString up to the visit of the first definition; with an error
\* from loadQuery or visitDocument, the whole call.
VisitString ==
    /\ ~panicked
    /\ stack = <<>>
    /\ input # <<>>
    /\ LET doc == Head(input)
           loadErr == loadQuery(doc)
           err == IF loadErr # <<>> THEN <<"loading", "query:">> \o loadErr
                  ELSE visitDocumentError(doc)
       IN /\ input' = Tail(input)
          /\ visiting' = <<doc>>
          /\ IF err # <<>>
             THEN /\ result' = [typ |-> <<>>, err |-> err]
                  /\ calls' = Append(calls, [gql |-> doc.gql, err |-> err, typ |-> <<>>])
                  /\ stack' = stack
             ELSE /\ stack' = visitDocumentCalls(doc)
                               \o << [op |-> "VisitString", gql |-> doc.gql] >>
                  /\ UNCHANGED << result, calls >>
    /\ UNCHANGED << generated, builders, variables, typ, panicked, hist, left >>
    /\ UNCHANGED << generator, extractor >>

\* VisitString keeping one QueryMap entry for each query text.
VisitStringReturn_collapsing ==
    /\ Running
    /\ Head(stack).op = "VisitString"
    /\ QueryMap' = IF \E i \in DOMAIN QueryMap : QueryMap[i].Query = Head(stack).gql
                   THEN QueryMap
                   ELSE Append(QueryMap, [Query |-> Head(stack).gql, Type |-> typ])
    /\ result' = [typ |-> typ, err |-> <<>>]
    /\ calls' = Append(calls, [gql |-> Head(stack).gql, err |-> <<>>, typ |-> typ])
    /\ stack' = Tail(stack)
    /\ UNCHANGED << input, Scalars, Declarations, builders, variables, typ,
                    panicked, hist, left, visiting >>
    /\ UNCHANGED << generator, extractor >>

\* VisitString putting the new entry in front of QueryMap.
VisitStringReturn_prepending ==
    /\ Running
    /\ Head(stack).op = "VisitString"
    /\ QueryMap' = <<[Query |-> Head(stack).gql, Type |-> typ]>> \o QueryMap
    /\ result' = [typ |-> typ, err |-> <<>>]
    /\ calls' = Append(calls, [gql |-> Head(stack).gql, err |-> <<>>, typ |-> typ])
    /\ stack' = Tail(stack)
    /\ UNCHANGED << input, Scalars, Declarations, builders, variables, typ,
                    panicked, hist, left, visiting >>
    /\ UNCHANGED << generator, extractor >>

\* Typer.VisitString after visitDocument has returned a type.
VisitStringReturn ==
    /\ Running
    /\ Head(stack).op = "VisitString"
    /\ QueryMap' = Append(QueryMap, [Query |-> Head(stack).gql, Type |-> typ])
    /\ result' = [typ |-> typ, err |-> <<>>]
    /\ calls' = Append(calls, [gql |-> Head(stack).gql, err |-> <<>>, typ |-> typ])
    /\ stack' = Tail(stack)
    /\ UNCHANGED << input, Scalars, Declarations, builders, variables, typ,
                    panicked, hist, left, visiting >>
    /\ UNCHANGED << generator, extractor >>

\* ------------------------------------------------------ selection visitor

\* Typer.visitOperationDefinition, lines 186-198: the kind's prefix and the
\* schema's root type.
opKindOf(operation) ==
    CASE operation = "query" -> "Query"
      [] operation = "mutation" -> "Mutation"
      [] operation = "subscription" -> "Subscription"

rootTypeOf(operation) ==
    CASE operation = "query" -> "Query"
      [] operation = "mutation" -> "Mutation"
      [] operation = "subscription" -> "Subscription"

\* Typer.startObject: the builder it installs.
startObject(def, order) == newAlternativesBuilder(toConcreteUnion(def, order))

\* narrow without line 280: the narrowed union is not put in alternatives.
narrow_unrecorded(b, target, order) ==
    LET old == b.self
        u   == intersectUnions(old, toConcreteUnion(target, order))
    IN [ builder |-> [b EXCEPT !.self = u], old |-> old ]

\* Typer.narrow on the current builder b: the builder after the call, and
\* the union its widen closure restores.
narrow(b, target, order) ==
    LET old == b.self
        u   == intersectUnions(old, toConcreteUnion(target, order))
    IN [ builder |-> [b EXCEPT !.self = u,
                               !.alternatives = MapSet(b.alternatives, u.canonical, u)],
         old     |-> old ]

\* A closure that restores nothing.
widened_kept(b, old) == b

\* The closure narrow returns.
widened(b, old) == [b EXCEPT !.self = old]

\* t.objects[def.Name] is nil for a member of self that has no builder: the
\* marking loops then dereference nil.
MissingBuilder(b) == ~(Range(b.self.definitions) \subseteq DOMAIN b.objects)

\* Lines 433-436 with the loop over every object builder of the frame
\* instead of self's members.
recordField_everywhere(b, alias, fieldType) ==
    [b EXCEPT
        !.fields  = MapSet(b.fields, alias, fieldType),
        !.objects = [n \in DOMAIN b.objects |->
                        [b.objects[n] EXCEPT !.fields = @ \cup {alias}]]]

\* Typer.visitField, lines 433-436.
recordField(b, alias, fieldType) ==
    [b EXCEPT
        !.fields  = MapSet(b.fields, alias, fieldType),
        !.objects = [n \in DOMAIN b.objects |->
                        IF n \in Range(b.self.definitions)
                        THEN [b.objects[n] EXCEPT !.fields = @ \cup {alias}]
                        ELSE b.objects[n]]]

\* The marking loop over every object builder instead of self's members.
markFragment_everywhere(b, name) ==
    [b EXCEPT
        !.objects = [n \in DOMAIN b.objects |->
                        [b.objects[n] EXCEPT !.fragments = @ \cup {name}]]]

\* Typer.visitFragmentSpread, lines 485-487.
markFragment(b, name) ==
    [b EXCEPT
        !.objects = [n \in DOMAIN b.objects |->
                        IF n \in Range(b.self.definitions)
                        THEN [b.objects[n] EXCEPT !.fragments = @ \cup {name}]
                        ELSE b.objects[n]]]

aliasOf(node) == IF node.Alias = "" THEN node.Name ELSE node.Alias

\* History of a frame.
NewHist(def, selections, u) ==
    [ type |-> def, selections |-> selections, root |-> u,
      taken |-> {Range(u.definitions)}, scopes |-> <<>> ]

Entered(h, node, before, after) ==
    [h EXCEPT !.taken  = @ \cup {Range(after.self.definitions)},
              !.scopes = Append(@, [node |-> node, before |-> before])]

Exited(h) == [h EXCEPT !.scopes = SubSeq(@, 1, Len(@) - 1)]

Panic ==
    /\ panicked' = TRUE
    /\ UNCHANGED << input, generated, builders, variables, stack, typ, result,
                    hist, left, calls, visiting >>

\* Typer.startDefinition up to the return of its closure, for a definition
\* of root type objectType, then the rest of the visit method.
StartDefinition(opKind, name, objectType, vardefs, selections, order) ==
    IF Panics(objectType) THEN Panic
    ELSE LET b  == startObject(objectType, order)
             st == visitVariableDefinitions(vardefs,
                       [variables |-> EmptyMap, Scalars |-> Scalars])
         IN /\ builders' = <<b>> \o builders
            /\ hist' = <<NewHist(objectType, selections, b.self)>> \o hist
            /\ variables' = <<st.variables>>
            /\ Scalars' = st.Scalars
            /\ stack' = visitSelectionSet(selections)
                        \o << [op |-> "endDefinition", opKind |-> opKind, name |-> name] >>
                        \o Tail(stack)
            /\ UNCHANGED << input, QueryMap, Declarations, typ, result, panicked,
                            left, calls, visiting >>

\* Typer.visitFragmentDefinition up to its visit of the selection set.
visitFragmentDefinition ==
    /\ Running
    /\ Head(stack).op = "visitFragmentDefinition"
    /\ \E order \in TypeOrders :
         LET def == Head(stack).def
         IN StartDefinition("Fragment", def.Name, getDefinition(def.TypeCondition),
                            <<>>, def.SelectionSet, order)
    /\ UNCHANGED << generator, extractor >>

\* Typer.visitOperationDefinition up to its visit of the selection set.
visitOperationDefinition ==
    /\ Running
    /\ Head(stack).op = "visitOperationDefinition"
    /\ \E order \in TypeOrders :
         LET def == Head(stack).def
         IN StartDefinition(opKindOf(def.Operation), def.Name, rootTypeOf(def.Operation),
                            def.VariableDefinitions, def.SelectionSet, order)
    /\ UNCHANGED << generator, extractor >>

\* The closure startDefinition returns: endObject, buildDocumentType, and
\* the reset of t.variables.
endDefinition ==
    /\ Running
    /\ Head(stack).op = "endDefinition"
    /\ LET b        == Head(builders)
           dataType == buildDataType(b)
           r        == buildDocumentType(Head(stack).opKind, Head(stack).name, dataType,
                                         variables[1], Declarations)
       IN /\ Declarations' = r.Declarations
          /\ typ' = r.documentType
          /\ left' = << [builder |-> b, hist |-> Head(hist), dataType |-> dataType] >>
    /\ builders' = Tail(builders)
    /\ hist' = Tail(hist)
    /\ variables' = <<>>
    /\ stack' = Tail(stack)
    /\ UNCHANGED << input, Scalars, QueryMap, result, panicked, calls, visiting >>
    /\ UNCHANGED << generator, extractor >>

\* Typer.visitField: all of it for a leaf field; for a field with a
\* selection set, up to the visit of that set.
visitField ==
    /\ Running
    /\ Head(stack).op = "visitSelection"
    /\ Head(stack).node.Kind = "Field"
    /\ \E order \in TypeOrders :
         LET node  == Head(stack).node
             st    == visitArgumentList(node.Arguments,
                          [variables |-> variables[1], Scalars |-> Scalars])
             alias == aliasOf(node)
         IN IF node.SelectionSet = <<>>
            THEN IF MissingBuilder(Head(builders)) THEN Panic
                 ELSE LET r == visitType(node.Type, st.Scalars)
                      IN /\ builders' = <<recordField(Head(builders), alias, r.text)>>
                                        \o Tail(builders)
                         /\ variables' = <<st.variables>>
                         /\ Scalars' = r.Scalars
                         /\ stack' = Tail(stack)
                         /\ UNCHANGED << input, QueryMap, Declarations, typ, result,
                                         panicked, hist, left, calls, visiting >>
            ELSE IF Panics(getDefinition(leafNameOf(node.Type))) THEN Panic
                 ELSE LET b == startObject(getDefinition(leafNameOf(node.Type)), order)
                      IN /\ builders' = <<b>> \o builders
                         /\ hist' = <<NewHist(getDefinition(leafNameOf(node.Type)),
                                               node.SelectionSet, b.self)>> \o hist
                         /\ variables' = <<st.variables>>
                         /\ Scalars' = st.Scalars
                         /\ stack' = visitSelectionSet(node.SelectionSet)
                                     \o << [op |-> "endField", alias |-> alias,
                                            Type |-> node.Type] >>
                                     \o Tail(stack)
                         /\ UNCHANGED << input, QueryMap, Declarations, typ, result,
                                         panicked, left, calls, visiting >>
    /\ UNCHANGED << generator, extractor >>

\* Typer.visitField after the visit of the field's selection set: endObject,
\* endType, and lines 433-436 on the parent's builder.
endField ==
    /\ Running
    /\ Head(stack).op = "endField"
    /\ LET b         == Head(builders)
           dataType  == buildDataType(b)
           fieldType == endType(Head(stack).Type, dataType)
           parent    == builders[2]
       IN IF MissingBuilder(parent) THEN Panic
          ELSE /\ builders' = <<recordField(parent, Head(stack).alias, fieldType)>>
                              \o Tail(Tail(builders))
               /\ hist' = Tail(hist)
               /\ left' = << [builder |-> b, hist |-> Head(hist), dataType |-> dataType] >>
               /\ stack' = Tail(stack)
               /\ UNCHANGED << input, generated, variables, typ, result, panicked, calls, visiting >>
    /\ UNCHANGED << generator, extractor >>

\* Typer.visitFragmentSpread up to its deferred widen.
visitFragmentSpread ==
    /\ Running
    /\ Head(stack).op = "visitSelection"
    /\ Head(stack).node.Kind = "FragmentSpread"
    /\ \E order \in TypeOrders :
         LET node   == Head(stack).node
             target == getDefinition(node.TypeCondition)
         IN IF Panics(target) THEN Panic
            ELSE LET n == narrow(Head(builders), target, order)
                 IN IF node.Name # "" /\ MissingBuilder(n.builder) THEN Panic
                    ELSE /\ builders' =
                              << IF node.Name = "" THEN n.builder
                                 ELSE markFragment(n.builder, node.Name) >>
                              \o Tail(builders)
                         /\ hist' = << Entered(Head(hist), node, Head(builders),
                                               n.builder) >>
                                    \o Tail(hist)
                         /\ stack' = (IF node.Name = ""
                                      THEN visitSelectionSet(node.SelectionSet) ELSE <<>>)
                                     \o << [op |-> "widen", old |-> n.old] >>
                                     \o Tail(stack)
                         /\ UNCHANGED << input, generated, variables, typ, result,
                                         panicked, left, calls, visiting >>
    /\ UNCHANGED << generator, extractor >>

\* Typer.visitInlineFragment up to the visit of its selection set.
visitInlineFragment ==
    /\ Running
    /\ Head(stack).op = "visitSelection"
    /\ Head(stack).node.Kind = "InlineFragment"
    /\ \E order \in TypeOrders :
         LET node   == Head(stack).node
             target == getDefinition(node.TypeCondition)
         IN IF Panics(target) THEN Panic
            ELSE LET n == narrow(Head(builders), target, order)
                 IN /\ builders' = <<n.builder>> \o Tail(builders)
                    /\ hist' = << Entered(Head(hist), node, Head(builders), n.builder) >>
                               \o Tail(hist)
                    /\ stack' = visitSelectionSet(node.SelectionSet)
                                \o << [op |-> "widen", old |-> n.old] >>
                                \o Tail(stack)
                    /\ UNCHANGED << input, generated, variables, typ, result,
                                    panicked, left, calls, visiting >>
    /\ UNCHANGED << generator, extractor >>

\* The deferred widen of visitFragmentSpread and visitInlineFragment.
widen ==
    /\ Running
    /\ Head(stack).op = "widen"
    /\ builders' = <<widened(Head(builders), Head(stack).old)>> \o Tail(builders)
    /\ hist' = <<Exited(Head(hist))>> \o Tail(hist)
    /\ stack' = Tail(stack)
    /\ UNCHANGED << input, generated, variables, typ, result, panicked, left, calls, visiting >>
    /\ UNCHANGED << generator, extractor >>

\* generator.visitInput up to its loop over the queries: a file that cannot
\* be read or extracted from is a warning (warnf counts it).
visitInput ==
    /\ ~panicked
    /\ exitStatus = -1
    /\ stack = <<>>
    /\ input = <<>>
    /\ nextFile <= Len(files)
    /\ nextFile' = nextFile + 1
    /\ IF files[nextFile].err # ""
       THEN errors' = errors + 1 /\ input' = input
       ELSE errors' = errors /\ input' = files[nextFile].queries
    /\ UNCHANGED << generated, builders, variables, stack, typ, result, panicked,
                    hist, left, calls, visiting, files, exitStatus, extractor >>

\* main after generator.run has returned nil: exit status 1 when warnings
\* were counted.
main ==
    /\ ~panicked
    /\ exitStatus = -1
    /\ stack = <<>>
    /\ input = <<>>
    /\ nextFile > Len(files)
    /\ exitStatus' = IF errors > 0 THEN 1 ELSE 0
    /\ UNCHANGED << input, generated, builders, variables, stack, typ, result, panicked,
                    hist, left, calls, visiting, files, nextFile, errors, extractor >>

Next ==
    \/ visitInput
    \/ main
    \/ VisitString
    \/ visitFragmentDefinition
    \/ visitOperationDefinition
    \/ visitField
    \/ endField
    \/ visitFragmentSpread
    \/ visitInlineFragment
    \/ widen
    \/ endDefinition
    \/ VisitStringReturn

Spec == Init /\ [][Next]_vars

\* ------------------------------------------------------------- extraction

\* Number of pieces the inputs of FromBytes are put together from.
MaxPieces == 5

\* The byte 0x60 of a backtick (bytes outside the letters of "#graphql" are
\* named by their hexadecimal value).
Backtick == "60"

\* The bytes of "#graphql".
Marker == <<"#", "g", "r", "a", "p", "h", "q", "l">>

\* startRE: a backtick and "#graphql", both literal.
startRE == <<Backtick>> \o Marker

\* The pieces of the inputs: an opening, a backtick, "#graphql" on its own,
\* and the two bytes of a non-ASCII rune.
Pieces == { startRE, <<Backtick>>, Marker, <<"C3", "A9">> }

RECURSIVE Flatten(_)
Flatten(seqs) == IF seqs = <<>> THEN <<>> ELSE Head(seqs) \o Flatten(Tail(seqs))

ExtractInputs == { Flatten(ps) : ps \in UNION {[1..n -> Pieces] : n \in 0..MaxPieces} }

\* startRE.FindIndex(b)[0], the offset of the leftmost match, or -1 for nil.
FindIndex_backtick(b) ==
    IF \E k \in 1..Len(b) : b[k] = Backtick
    THEN (CHOOSE k \in 1..Len(b) : b[k] = Backtick /\ \A j \in 1..(k - 1) : b[j] # Backtick) - 1
    ELSE -1

Matches(b, k) == k + Len(startRE) - 1 <= Len(b) /\ SubSeq(b, k, k + Len(startRE) - 1) = startRE

FindIndex(b) ==
    IF \E k \in 1..Len(b) : Matches(b, k)
    THEN (CHOOSE k \in 1..Len(b) : Matches(b, k) /\ \A j \in 1..(k - 1) : ~Matches(b, j)) - 1
    ELSE -1

\* utf8.DecodeRune(b[i:]) for i < len(b): the rune and its size.  The two
\* bytes C3 A9 are one rune; either of them elsewhere is an invalid
\* encoding, which decodes as RuneError of size 1.
DecodeRune(b, i) ==
    IF b[i + 1] = "C3" /\ i + 2 <= Len(b) /\ b[i + 2] = "A9"
    THEN [r |-> "U+00E9", size |-> 2]
    ELSE IF b[i + 1] \in {"C3", "A9"} THEN [r |-> "RuneError", size |-> 1]
    ELSE [r |-> b[i + 1], size |-> 1]

\* FromBytes returning what it has found so far with the error.
unexpectedEOF_partial(found) == [res |-> found, err |-> "io.ErrUnexpectedEOF"]

\* FromBytes, line 39: return nil, io.ErrUnexpectedEOF.
unexpectedEOF(found) == [res |-> <<>>, err |-> "io.ErrUnexpectedEOF"]

\* The state before FromBytes(given) runs, outside a run of main.
ExtractInit ==
    /\ given \in ExtractInputs
    /\ bs = given
    /\ res = <<>>
    /\ idx = 0
    /\ pc = "scan"
    /\ ret = [res |-> <<>>, err |-> ""]
    /\ files = <<>>
    /\ nextFile = 1
    /\ errors = 0
    /\ exitStatus = -1
    /\ input = <<>>
    /\ Scalars = <<>>
    /\ QueryMap = <<>>
    /\ Declarations = <<>>
    /\ builders = <<>>
    /\ variables = <<>>
    /\ stack = <<>>
    /\ typ = <<>>
    /\ result = [typ |-> <<>>, err |-> <<>>]
    /\ panicked = FALSE
    /\ hist = <<>>
    /\ left = <<>>
    /\ calls = <<>>
    /\ visiting = <<>>

typer == << input, Scalars, QueryMap, Declarations, builders, variables, stack,
            typ, result, panicked, hist, left, calls, visiting >>

\* FromBytes at the head of its loop scan (lines 17-27): the return of
\* line 41 when nothing is left or nothing matches, else the step over the
\* backtick of the leftmost match.
scan ==
    /\ pc = "scan"
    /\ IF Len(bs) > 0 /\ FindIndex(bs) # -1
       THEN /\ bs' = SubSeq(bs, FindIndex(bs) + 2, Len(bs))
            /\ idx' = 0
            /\ pc' = "rune"
            /\ UNCHANGED << res, ret >>
       ELSE /\ ret' = [res |-> res, err |-> ""]
            /\ pc' = "done"
            /\ UNCHANGED << bs, res, idx >>
    /\ UNCHANGED << given, typer, generator >>

\* One turn of the inner loop (lines 28-37), and the return of line 39
\* when the loop ends.
scanRune ==
    /\ pc = "rune"
    /\ IF idx < Len(bs)
       THEN LET d == DecodeRune(bs, idx)
                i == idx + d.size
            IN IF d.r = Backtick
               THEN /\ res' = Append(res, SubSeq(bs, 1, i - d.size))
                    /\ bs' = SubSeq(bs, i + 1, Len(bs))
                    /\ idx' = i
                    /\ pc' = "scan"
                    /\ UNCHANGED ret
               ELSE /\ idx' = i
                    /\ UNCHANGED << bs, res, pc, ret >>
       ELSE /\ ret' = unexpectedEOF(res)
            /\ pc' = "done"
            /\ UNCHANGED << bs, res, idx >>
    /\ UNCHANGED << given, typer, generator >>

ExtractNext == scan \/ scanRune

\* The loops of FromBytes run on: nothing in them blocks.
ExtractSpec == ExtractInit /\ [][ExtractNext]_vars /\ WF_vars(ExtractNext)

\* ------------------------------------------------------- frames on their own

\* Number of narrow calls inside one another in a frame opened on its own.
MaxNarrow == 2

\* The state before t.startObject(t.getDefinition(name)) is called for a
\* type name of the schema, outside a visit.
FrameInit ==
    /\ stack \in { << [op |-> "startObject", name |-> n] >> : n \in TypeNames }
    /\ NoExtraction
    /\ files = <<>>
    /\ nextFile = 1
    /\ errors = 0
    /\ exitStatus = -1
    /\ input = <<>>
    /\ Scalars = <<>>
    /\ QueryMap = <<>>
    /\ Declarations = <<>>
    /\ builders = <<>>
    /\ variables = <<>>
    /\ typ = <<>>
    /\ result = [typ |-> <<>>, err |-> <<>>]
    /\ panicked = FALSE
    /\ hist = <<>>
    /\ left = <<>>
    /\ calls = <<>>
    /\ visiting = <<>>

\* Typer.startObject up to the return of its closure.
startObjectCall ==
    /\ Running
    /\ Head(stack).op = "startObject"
    /\ \E order \in TypeOrders :
         LET def == getDefinition(Head(stack).name)
         IN IF Panics(def) THEN Panic
            ELSE LET b == startObject(def, order)
                 IN /\ builders' = <<b>> \o builders
                    /\ hist' = <<NewHist(def, <<>>, b.self)>> \o hist
                    /\ stack' = Tail(stack)
                    /\ UNCHANGED << input, generated, variables, typ, result, panicked,
                                    left, calls, visiting >>
    /\ UNCHANGED << generator, extractor >>

\* Typer.narrow up to the return of its closure, for a type name of the
\* schema.
narrowCall ==
    /\ ~panicked
    /\ builders # <<>>
    /\ Len(stack) < MaxNarrow
    /\ \E name \in TypeNames, order \in TypeOrders :
         LET target == getDefinition(name)
         IN IF Panics(target) THEN Panic
            ELSE LET n == narrow(Head(builders), target, order)
                 IN /\ builders' = <<n.builder>> \o Tail(builders)
                    /\ hist' = << Entered(Head(hist), InlineFragment(name, <<>>),
                                          Head(builders), n.builder) >> \o Tail(hist)
                    /\ stack' = << [op |-> "widen", old |-> n.old] >> \o stack
                    /\ UNCHANGED << input, generated, variables, typ, result, panicked,
                                    left, calls, visiting >>
    /\ UNCHANGED << generator, extractor >>

FrameNext == startObjectCall \/ narrowCall \/ widen

FrameSpec == FrameInit /\ [][FrameNext]_vars

\* ============================================================ properties

\* The object types a position of static type def can hold, read off the
\* schema: the type itself, the types that list it among their interfaces,
\* the members of the union.
PossibleTypes(def) ==
    {o \in TypeNames :
        /\ Schema[o].Kind = "OBJECT"
        /\ \/ o = def
           \/ def \in Range(Schema[o].Interfaces)
           \/ o \in Range(Schema[def].Types)}

\* ---- reading a data shape back

\* The brace depth in front of token i of text.
DepthBefore(text, i) ==
    Cardinality({k \in 1..(i - 1) : text[k] = "{"})
    - Cardinality({k \in 1..(i - 1) : text[k] = "}"})

RECURSIVE Ascending(_)
Ascending(S) ==
    IF S = {} THEN <<>>
    ELSE LET m == CHOOSE x \in S : \A y \in S : x <= y
         IN <<m>> \o Ascending(S \ {m})

\* Where the object shapes of the union open and where the one opening at i
\* closes.
SegmentStarts(text) ==
    {i \in DOMAIN text : text[i] = "{" /\ DepthBefore(text, i) = 0}

SegmentEnd(text, i) ==
    CHOOSE j \in DOMAIN text :
        /\ j > i /\ text[j] = "}" /\ DepthBefore(text, j) = 1
        /\ \A k \in (i + 1)..(j - 1) : ~(text[k] = "}" /\ DepthBefore(text, k) = 1)

\* Where the members "name: type; " of the shape i..j start, and where the
\* member starting at k ends (its ";").
MemberStarts(text, i, j) ==
    {k \in (i + 2)..(j - 1) :
        /\ text[k - 1] = SP
        /\ text[k - 2] \in {"{", ";"}
        /\ DepthBefore(text, k - 2) = (IF text[k - 2] = "{" THEN 0 ELSE 1)}

MemberEnd(text, k) ==
    CHOOSE m \in DOMAIN text :
        /\ m > k /\ text[m] = ";" /\ DepthBefore(text, m) = 1
        /\ \A n \in (k + 1)..(m - 1) : ~(text[n] = ";" /\ DepthBefore(text, n) = 1)

RECURSIVE Intersected(_, _)
\* The names after the "&"s that follow token j.
Intersected(text, j) ==
    IF Len(text) >= j + 4 /\ SubSeq(text, j + 1, j + 3) = <<SP, "&", SP>>
    THEN <<text[j + 4]>> \o Intersected(text, j + 4)
    ELSE <<>>

\* The object shape that opens at i: its discriminant's type, its further
\* members (alias and type, in order), and the names it is intersected with.
Segment(text, i) ==
    LET j      == SegmentEnd(text, i)
        starts == Ascending(MemberStarts(text, i, j))
        key    == SubSeq(text, i + 4, MemberEnd(text, i + 2) - 1)
    IN [ discriminant |-> text[i + 2],
         key       |-> key,
         aliases   |-> [n \in 1..(Len(starts) - 1) |-> text[starts[n + 1]]],
         types     |-> [n \in 1..(Len(starts) - 1) |->
                          SubSeq(text, starts[n + 1] + 3, MemberEnd(text, starts[n + 1]) - 1)],
         fragments |-> Intersected(text, j),
         text      |-> SubSeq(text, i, j + 4 * Len(Intersected(text, j))) ]

Segments(text) ==
    LET starts == Ascending(SegmentStarts(text))
    IN [n \in DOMAIN starts |-> Segment(text, starts[n])]

\* The discriminant type of each object shape of a data shape, in order.
SegmentKeys(text) ==
    LET segs == Segments(text)
    IN [n \in DOMAIN segs |-> segs[n].key]

RECURSIVE MembersText(_, _)
MembersText(aliases, types) ==
    IF aliases = <<>> THEN <<>>
    ELSE <<Head(aliases), ":", SP>> \o Head(types) \o <<";", SP>>
         \o MembersText(Tail(aliases), Tail(types))

RECURSIVE IntersectedText(_)
IntersectedText(names) ==
    IF names = <<>> THEN <<>>
    ELSE <<SP, "&", SP, Head(names)>> \o IntersectedText(Tail(names))

\* The type names a discriminant type lists.
KeyMembers(key) == {n \in TypeNames : StringToJSON(n) \in Range(key)}

NoDuplicates(seq) == \A i, j \in DOMAIN seq : seq[i] = seq[j] => i = j

\* A frame has just been left (the closure of startObject has run).
FrameLeft == left # <<>>

\* C1: when a composite position is left, the union segments emitted for
\* its frame are the frame's root union and every narrowed union self took
\* on entering a fragment spread or inline fragment of that frame, each
\* canonical key once.
C1_SegmentsAreUnionsTaken ==
    FrameLeft =>
        LET keys == SegmentKeys(left[1].dataType)
        IN /\ NoDuplicates(keys)
           /\ {KeyMembers(keys[i]) : i \in DOMAIN keys} = left[1].hist.taken
           /\ Cardinality(left[1].hist.taken) = Len(keys)

\* The field `named` of query Fred has been left: `...Named` and
\* `... on Pet` under a Named-typed field gave "Pet" and "Pet" | "User".
C1_Witness ==
    /\ FrameLeft
    /\ left[1].hist.type = "Named"
    /\ Len(left[1].hist.selections) = 2
    /\ left[1].hist.selections[1].Kind = "FragmentSpread"
    /\ left[1].hist.selections[2].Kind = "InlineFragment"
    /\ left[1].hist.taken = {{"Pet"}, {"Pet", "User"}}
    /\ SegmentKeys(left[1].dataType)
         = << <<"\"Pet\"">>, <<"\"Pet\"", SP, "|", SP, "\"User\"">> >>

\* C2: every segment emitted on leaving a frame is the discriminant
\* __typename typed as the segment's canonical key, then exactly the aliases
\* marked selected on at least one member type of the segment, each with
\* the type text of the frame's fields map, then "& Fragment_<name>_Data"
\* for exactly the fragment names marked applied on at least one member.
C2_SegmentShape ==
    FrameLeft =>
        LET b    == left[1].builder
            segs == Segments(left[1].dataType)
        IN \A n \in DOMAIN segs :
            LET s       == segs[n]
                members == Range(b.alternatives[s.key].definitions)
            IN /\ s.discriminant = "__typename:"
               /\ s.key \in DOMAIN b.alternatives
               /\ s.text = <<"{", SP, "__typename:", SP>> \o s.key \o <<";", SP>>
                            \o MembersText(s.aliases, s.types) \o <<"}">>
                            \o IntersectedText(s.fragments)
               /\ NoDuplicates(s.aliases)
               /\ Range(s.aliases) = UNION {b.objects[m].fields : m \in members}
               /\ \A a \in DOMAIN s.aliases : s.types[a] = b.fields[s.aliases[a]]
               /\ NoDuplicates(s.fragments)
               /\ Range(s.fragments)
                    = {"Fragment_" \o f \o "_Data" :
                          f \in UNION {b.objects[m].fragments : m \in members}}

\* The field `named` of query Fred has been left: species was selected on
\* Pet alone and is a member of both segments; both carry the fragment.
C2_Witness ==
    /\ FrameLeft
    /\ left[1].hist.type = "Named"
    /\ left[1].builder.objects["Pet"].fields = {"species"}
    /\ left[1].builder.objects["User"].fields = {}
    /\ left[1].builder.objects["User"].fragments = {"Named"}
    /\ Len(Segments(left[1].dataType)) = 2
    /\ Segments(left[1].dataType)[2].aliases = <<"species">>
    /\ Segments(left[1].dataType)[2].types = << <<"string">> >>
    /\ Segments(left[1].dataType)[2].fragments = <<"Fragment_Named_Data">>
    /\ Render(left[1].dataType)
         = "{ __typename: \"Pet\"; species: string; } & Fragment_Named_Data"
           \o " | { __typename: \"Pet\" | \"User\"; species: string; } & Fragment_Named_Data"

\* The object types all the type conditions of the scopes allow.
AllowedBy(scopes) ==
    {o \in TypeNames :
        \A s \in DOMAIN scopes : o \in PossibleTypes(scopes[s].node.TypeCondition)}

\* C3: inside nested fragment spreads and inline fragments of one frame,
\* self is the intersection of the frame's root union with the concrete
\* unions of the type conditions of all enclosing fragments, and so a
\* subset of the self of every enclosing scope.
C3_NarrowingCompounds ==
    \A f \in DOMAIN hist :
        LET h    == hist[f]
            self == Range(builders[f].self.definitions)
        IN /\ self = Range(h.root.definitions) \cap AllowedBy(h.scopes)
           /\ \A s \in DOMAIN h.scopes :
                /\ self \subseteq Range(h.scopes[s].before.self.definitions)
                /\ \A r \in 1..(s - 1) :
                     Range(h.scopes[s].before.self.definitions)
                       \subseteq Range(h.scopes[r].before.self.definitions)

\* Inside `... on Pet { ... on Named { name } }` under the field `named`:
\* self is still Pet alone, not the Pet and User of the inner condition.
C3_Witness ==
    /\ hist # <<>>
    /\ hist[1].type = "Named"
    /\ Len(hist[1].scopes) = 2
    /\ hist[1].scopes[1].node.TypeCondition = "Pet"
    /\ hist[1].scopes[2].node.TypeCondition = "Named"
    /\ Range(hist[1].scopes[1].before.self.definitions) = {"Pet", "User"}
    /\ Range(hist[1].scopes[2].before.self.definitions) = {"Pet"}
    /\ Range(builders[1].self.definitions) = {"Pet"}
    /\ builders[1].self.canonical = <<"\"Pet\"">>

\* C4: when visitFragmentSpread or visitInlineFragment returns, self of the
\* current frame is the union it was just before the fragment was entered;
\* and when the whole selection set of a frame has been visited, self is
\* the frame's root union again.
C4_StackDiscipline ==
    [][ /\ widen =>
            /\ Head(hist).scopes # <<>>
            /\ Head(builders').self
                 = Head(hist).scopes[Len(Head(hist).scopes)].before.self
        /\ (endField \/ endDefinition) =>
            /\ Head(hist).scopes = <<>>
            /\ Head(builders).self = Head(hist).root ]_vars

\* The selection set of the field `named` has been visited, a fragment on
\* Pet was entered and left in it, and self is Pet and User again.
C4_Witness ==
    /\ Running
    /\ Head(stack).op = "endField"
    /\ Cardinality(Head(hist).taken) > 1
    /\ Head(hist).scopes = <<>>
    /\ Head(builders).self = Head(hist).root
    /\ Range(Head(builders).self.definitions) = {"Pet", "User"}
    /\ {"Pet"} \in Head(hist).taken

\* The fragment entered last in the current frame has been visited and is
\* about to return.
FragmentVisited ==
    /\ Running
    /\ Head(stack).op = "widen"
    /\ Head(hist).scopes # <<>>

LastScope == Head(hist).scopes[Len(Head(hist).scopes)]

RECURSIVE SpreadNames(_)
\* The named fragments spread in a selection set, directly or inside its
\* inline fragments.
SpreadNames(selections) ==
    IF selections = <<>> THEN {}
    ELSE (CASE Head(selections).Kind = "FragmentSpread" -> {Head(selections).Name}
            [] Head(selections).Kind = "InlineFragment" ->
                    SpreadNames(Head(selections).SelectionSet)
            [] OTHER -> {})
         \cup SpreadNames(Tail(selections))

FieldsOf(selections) ==
    {i \in DOMAIN selections : selections[i].Kind = "Field"}

\* C5: a named fragment spread leaves the frame's alias map and every
\* per-type selected-alias set as they were and marks the fragment name on
\* exactly the members of the narrowed self; an inline fragment records each
\* of its fields in the frame's alias map and in the selected-alias set of
\* every member of the narrowed self, and marks no fragment name.
C5_SpreadMarksInlineRecords ==
    FragmentVisited =>
        LET node    == LastScope.node
            before  == LastScope.before
            b       == Head(builders)
            self    == Range(b.self.definitions)
            aliases == {aliasOf(node.SelectionSet[i]) : i \in FieldsOf(node.SelectionSet)}
        IN /\ DOMAIN b.objects = DOMAIN before.objects
           /\ self = Range(before.self.definitions) \cap PossibleTypes(node.TypeCondition)
           /\ node.Kind = "FragmentSpread" =>
                /\ b.fields = before.fields
                /\ \A n \in DOMAIN b.objects :
                     /\ b.objects[n].fields = before.objects[n].fields
                     /\ b.objects[n].fragments
                          = before.objects[n].fragments
                            \cup (IF n \in self THEN {node.Name} ELSE {})
           /\ node.Kind = "InlineFragment" =>
                /\ aliases \subseteq DOMAIN b.fields
                /\ \A i \in FieldsOf(node.SelectionSet) :
                     node.SelectionSet[i].SelectionSet = <<>> =>
                        b.fields[aliasOf(node.SelectionSet[i])]
                          = visitType(node.SelectionSet[i].Type, <<>>).text
                /\ \A n \in self : aliases \subseteq b.objects[n].fields
                /\ \A n \in DOMAIN b.objects :
                     /\ b.objects[n].fragments \ before.objects[n].fragments
                          \subseteq SpreadNames(node.SelectionSet)
                     /\ FieldsOf(node.SelectionSet) = DOMAIN node.SelectionSet =>
                          b.objects[n].fields
                            = before.objects[n].fields
                              \cup (IF n \in self THEN aliases ELSE {})

\* After `...PetF`, at the end of `... on Pet { species }` under the field
\* `named`: the spread marked PetF on Pet alone and recorded no alias, the
\* inline fragment recorded species on Pet alone and marked nothing.
C5_Witness ==
    /\ FragmentVisited
    /\ Head(hist).type = "Named"
    /\ LastScope.node.Kind = "InlineFragment"
    /\ LastScope.node.TypeCondition = "Pet"
    /\ LastScope.before.fields = EmptyMap
    /\ LastScope.before.objects["Pet"] = [fields |-> {}, fragments |-> {"PetF"}]
    /\ LastScope.before.objects["User"] = [fields |-> {}, fragments |-> {}]
    /\ Head(builders).fields = MapSet(EmptyMap, "species", <<"string">>)
    /\ Head(builders).objects["Pet"] = [fields |-> {"species"}, fragments |-> {"PetF"}]
    /\ Head(builders).objects["User"] = [fields |-> {}, fragments |-> {}]

\* The quoted names a discriminant type lists, in order (never lists none).
KeyNames(key) == SelectSeq(key, LAMBDA tok : tok \notin {SP, "|", "never"})

\* The object types of the schema that implement an interface.
Implementers(iface) ==
    {o \in TypeNames : Schema[o].Kind = "OBJECT" /\ iface \in Range(Schema[o].Interfaces)}

\* C6: for an interface-typed composite position whose selection set holds
\* no fragment spread and no inline fragment, the frame's alternatives have
\* exactly one segment, whose canonical key lists every object type that
\* implements the interface, sorted.
C6_InterfaceOneSegment ==
    ( /\ FrameLeft
      /\ Schema[left[1].hist.type].Kind = "INTERFACE"
      /\ FieldsOf(left[1].hist.selections) = DOMAIN left[1].hist.selections ) =>
        LET b    == left[1].builder
            keys == SegmentKeys(left[1].dataType)
        IN /\ Cardinality(DOMAIN b.alternatives) = 1
           /\ Len(keys) = 1
           /\ keys[1] \in DOMAIN b.alternatives
           /\ keys[1] = IF KeyNames(keys[1]) = <<>> THEN <<"never">>
                        ELSE JoinStrings(KeyNames(keys[1]), <<SP, "|", SP>>)
           /\ Range(KeyNames(keys[1]))
                = {StringToJSON(o) : o \in Implementers(left[1].hist.type)}
           /\ \A i, j \in DOMAIN KeyNames(keys[1]) :
                i < j => StringLess(KeyNames(keys[1])[i], KeyNames(keys[1])[j])

\* `named(name: "x") { name }` has been left, its union enumerated as User
\* then Pet: the one segment is "Pet" | "User".
C6_Witness ==
    /\ FrameLeft
    /\ left[1].hist.type = "Named"
    /\ left[1].hist.selections = <<Leaf("Named", "name")>>
    /\ left[1].builder.self.definitions = <<"User", "Pet">>
    /\ Render(left[1].dataType) = "{ __typename: \"Pet\" | \"User\"; name: string; }"

LeafFieldsOnly(selections) ==
    \A i \in DOMAIN selections :
        selections[i].Kind = "Field" /\ selections[i].SelectionSet = <<>>

\* C7: for an object type T and a selection set of leaf fields only on a
\* T-typed position, the data shape is one object shape whose __typename
\* discriminant is the JSON-quoted name of T; `{ hello }` on Query gives
\* { __typename: "Query"; hello: string; } with no declarations and no
\* scalars recorded.
C7_ObjectLeafShape ==
    /\ ( /\ FrameLeft
          /\ Schema[left[1].hist.type].Kind = "OBJECT"
          /\ LeafFieldsOnly(left[1].hist.selections) ) =>
            LET segs == Segments(left[1].dataType)
            IN /\ Len(segs) = 1
               /\ segs[1].text = left[1].dataType
               /\ segs[1].discriminant = "__typename:"
               /\ segs[1].key = <<StringToJSON(left[1].hist.type)>>
               /\ segs[1].fragments = <<>>
               /\ Range(segs[1].aliases)
                    = {aliasOf(left[1].hist.selections[i]) : i \in DOMAIN left[1].hist.selections}
    /\ ( /\ calls # <<>>
          /\ stack = <<>>
          /\ \A i \in DOMAIN calls : calls[i].gql = "{ hello }" ) =>
            /\ Declarations = <<>>
            /\ Scalars = <<>>
            /\ \A i \in DOMAIN calls :
                 /\ calls[i].err = <<>>
                 /\ Render(calls[i].typ)
                      = "{ data: { __typename: \"Query\"; hello: string; }; variables: { }; }"

\* `{ hello }` has been visited, and nothing else: the root frame on Query
\* was left with the one shape.
C7_Witness ==
    /\ FrameLeft
    /\ left[1].hist.type = "Query"
    /\ left[1].hist.selections = <<Leaf("Query", "hello")>>
    /\ Render(left[1].dataType) = "{ __typename: \"Query\"; hello: string; }"
    /\ stack = <<>>
    /\ Len(calls) = 1
    /\ calls[1].gql = "{ hello }"
    /\ Render(result.typ) = "{ data: { __typename: \"Query\"; hello: string; }; variables: { }; }"
    /\ Declarations = <<>>
    /\ Scalars = <<>>

\* The root definition whose visit is ending: of the definitions of the
\* document being visited, the one before those still to be visited.
DefinitionsToVisit ==
    Cardinality({i \in DOMAIN stack :
        stack[i].op \in {"visitFragmentDefinition", "visitOperationDefinition"}})

CurrentDefinition ==
    LET doc == visiting[1]
        all == [i \in DOMAIN doc.Fragments |-> [kind |-> "Fragment", def |-> doc.Fragments[i]]]
               \o [i \in DOMAIN doc.Operations |->
                      [kind |-> doc.Operations[i].Operation, def |-> doc.Operations[i]]]
    IN all[Len(all) - DefinitionsToVisit]

KindOf(kind) ==
    CASE kind = "query" -> "Query"
      [] kind = "mutation" -> "Mutation"
      [] kind = "subscription" -> "Subscription"
      [] kind = "Fragment" -> "Fragment"

\* C8: an anonymous root definition appends nothing to Declarations and
\* returns { data: <dataShape>; variables: <variablesShape>; } with both
\* shapes inlined; a named one appends exactly two declarations,
\* <Kind>_<Name>_Data then <Kind>_<Name>_Variables, and returns
\* { data: <Kind>_<Name>_Data; variables: <Kind>_<Name>_Variables; }.
C8_DocumentType ==
    [][ endDefinition =>
        LET name           == CurrentDefinition.def.Name
            kind           == KindOf(CurrentDefinition.kind)
            dataShape      == Render(buildDataType(Head(builders)))
            variablesShape == Render(buildVariablesType(variables[1]))
            dataName       == kind \o "_" \o name \o "_Data"
            variablesName  == kind \o "_" \o name \o "_Variables"
        IN IF name = ""
           THEN /\ Declarations' = Declarations
                /\ Render(typ') = "{ data: " \o dataShape \o "; variables: "
                                   \o variablesShape \o "; }"
           ELSE /\ Len(Declarations') = Len(Declarations) + 2
                /\ SubSeq(Declarations', 1, Len(Declarations)) = Declarations
                /\ Render(Declarations'[Len(Declarations) + 1])
                     = "export type " \o dataName \o " = " \o dataShape \o ";"
                /\ Render(Declarations'[Len(Declarations) + 2])
                     = "export type " \o variablesName \o " = " \o variablesShape \o ";"
                /\ Render(typ') = "{ data: " \o dataName \o "; variables: "
                                   \o variablesName \o "; }" ]_vars

\* query GetUser has been visited: its two declarations, and the type
\* that names them.
C8_Witness ==
    /\ stack = <<>>
    /\ Len(calls) = 1
    /\ visiting = <<DocGetUser>>
    /\ Len(Declarations) = 2
    /\ Render(Declarations[1])
         = "export type Query_GetUser_Data = { __typename: \"Query\"; user: "
           \o "({ __typename: \"User\"; bio: string | null; name: string; }) | null; };"
    /\ Render(Declarations[2]) = "export type Query_GetUser_Variables = { userId: string; };"
    /\ Render(result.typ) = "{ data: Query_GetUser_Data; variables: Query_GetUser_Variables; }"

IsPrefix(a, b) == Len(a) <= Len(b) /\ SubSeq(b, 1, Len(a)) = a

\* The name a declaration declares: "export type <name> = ...".
DeclaredName(decl) == decl[5]

DeclaredNames == [i \in DOMAIN Declarations |-> DeclaredName(Declarations[i])]

Catalogue == RunDocuments \cup SingleDocuments

DocOf(gql) == CHOOSE d \in Catalogue : d.gql = gql

RECURSIVE FragmentNamesOf(_)
FragmentNamesOf(frags) ==
    IF frags = <<>> THEN <<>>
    ELSE <<"Fragment_" \o Head(frags).Name \o "_Data",
           "Fragment_" \o Head(frags).Name \o "_Variables">>
         \o FragmentNamesOf(Tail(frags))

\* The names an accepted document declares, in the order the claim gives:
\* the fragments in document order, then the operation.
NamesOf(doc) ==
    FragmentNamesOf(doc.Fragments)
    \o (IF doc.Operations # <<>> /\ doc.Operations[1].Name # ""
        THEN <<KindOf(doc.Operations[1].Operation) \o "_" \o doc.Operations[1].Name \o "_Data",
               KindOf(doc.Operations[1].Operation) \o "_" \o doc.Operations[1].Name
                 \o "_Variables">>
        ELSE <<>>)

RECURSIVE NamesOfCalls(_)
NamesOfCalls(cs) ==
    IF cs = <<>> THEN <<>>
    ELSE (IF Head(cs).err = <<>> THEN NamesOf(DocOf(Head(cs).gql)) ELSE <<>>)
         \o NamesOfCalls(Tail(cs))

\* The declarations are those of the accepted documents in
\* the order of their visits, each document giving its fragments' two
\* declarations in document order and then its operation's two; during a
\* visit the list is a prefix of that.
C9_EmissionOrderSoFar ==
    IF stack = <<>>
    THEN DeclaredNames = NamesOfCalls(calls)
    ELSE IsPrefix(DeclaredNames, NamesOfCalls(calls) \o NamesOf(visiting[1]))
         /\ IsPrefix(NamesOfCalls(calls), DeclaredNames)

\* C9: declarations appear in first-emission order: the fragments' two
\* declarations each, in document order, before the operation's two, and
\* the declarations already in the list keep their places at every step.
C9_FirstEmissionOrder ==
    [][ /\ IsPrefix(Declarations, Declarations')
        /\ C9_EmissionOrderSoFar' ]_vars

\* query Both has been visited: PetF, defined first and spread second, is
\* declared first, the operation last.
C9_Witness ==
    /\ stack = <<>>
    /\ visiting = <<DocBoth>>
    /\ Len(calls) = 1
    /\ calls[1].err = <<>>
    /\ DeclaredNames = <<"Fragment_PetF_Data", "Fragment_PetF_Variables",
                          "Fragment_Named_Data", "Fragment_Named_Variables",
                          "Query_Both_Data", "Query_Both_Variables">>

\* The calls that returned a type, in order.
Returned == SelectSeq(calls, LAMBDA c : c.err = <<>>)

\* C10: the same query text given to VisitString twice in one run, with
\* any documents in between, appends two QueryMap entries with that text and
\* the same computed type: QueryMap holds one entry for each call that
\* returned a type, in order, and equal texts have equal types.
C10_SameTextSameEntry ==
    /\ Len(QueryMap) = Len(Returned)
    /\ \A i \in DOMAIN QueryMap :
         QueryMap[i] = [Query |-> Returned[i].gql, Type |-> Returned[i].typ]
    /\ \A i, j \in DOMAIN calls :
         calls[i].gql = calls[j].gql =>
            /\ calls[i].typ = calls[j].typ
            /\ calls[i].err = calls[j].err

\* `{ named(name: "x") { name } }`, query GetUser, and the first again:
\* three entries, the first and the third alike.
C10_Witness ==
    /\ stack = <<>>
    /\ Len(calls) = 3
    /\ calls[1].gql = DocNamedOnly.gql
    /\ calls[2].gql = DocGetUser.gql
    /\ calls[3].gql = DocNamedOnly.gql
    /\ Len(QueryMap) = 3
    /\ QueryMap[1] = QueryMap[3]
    /\ QueryMap[1].Query = "{ named(name: \"x\") { name } }"
    /\ Render(QueryMap[3].Type)
         = "{ data: { __typename: \"Query\"; named: ({ __typename: \"Pet\" | \"User\"; "
           \o "name: string; }) | null; }; variables: { }; }"

\* A call of VisitString returns an error at this step.
CallFails ==
    /\ Len(calls') = Len(calls) + 1
    /\ calls'[Len(calls')].err # <<>>

\* C11: a call of VisitString that fails (parse error, diagnostic that is
\* not suppressed, or arity error) returns an error and no type, and leaves
\* QueryMap, Declarations and Scalars as they were before the call, and the
\* builder and the variables too: what the Typer does with the documents
\* after it is what it does without the failed one.
C11_FailureLeavesState ==
    [][ CallFails =>
            /\ result'.err # <<>>
            /\ result'.typ = <<>>
            /\ QueryMap' = QueryMap
            /\ Declarations' = Declarations
            /\ Scalars' = Scalars
            /\ builders' = builders
            /\ variables' = variables
            /\ builders = <<>>
            /\ variables = <<>> ]_vars

\* query Fred, then a document with two operations, then query Clock: the
\* second call failed, and the lists hold what Fred and Clock gave.
C11_Witness ==
    /\ stack = <<>>
    /\ Len(calls) = 3
    /\ calls[1].gql = DocFred.gql /\ calls[1].err = <<>>
    /\ calls[2].gql = DocTwoOperations.gql
    /\ calls[2].err = <<"expected", "at", "most", "one", "operation", "definition,",
                         "found", "2">>
    /\ calls[3].gql = DocClock.gql /\ calls[3].err = <<>>
    /\ Len(QueryMap) = 2
    /\ QueryMap[1].Query = DocFred.gql
    /\ QueryMap[2].Query = DocClock.gql
    /\ Len(Declarations) = 6
    /\ Scalars = <<"Instant">>

\* The calls on documents that loadQuery let through.
Loaded(c) == loadQuery(DocOf(c.gql)) = <<>>

\* C12 as stated: a document is accepted only with exactly one operation
\* and no fragment definition, or exactly one fragment definition and no
\* operation; every other combination yields an error.
C12_ExactlyOneDefinition ==
    \A i \in DOMAIN calls :
        Loaded(calls[i]) =>
            LET doc == DocOf(calls[i].gql)
            IN calls[i].err = <<>>
               <=> Len(doc.Operations) + Len(doc.Fragments) = 1

\* C12, amended: a document is accepted when it holds exactly one
\* operation, with any number of fragment definitions, or no operation and
\* exactly one fragment definition; no definition at all is the error "no
\* definitions", several operations or several fragments without an
\* operation an error that names the count found; a rejected document has
\* no computed type.
C12_Arity ==
    \A i \in DOMAIN calls :
        Loaded(calls[i]) =>
            LET doc == DocOf(calls[i].gql)
                ops == Len(doc.Operations)
                frs == Len(doc.Fragments)
            IN /\ (ops = 1 \/ (ops = 0 /\ frs = 1)) =>
                    calls[i].err = <<>> /\ calls[i].typ # <<>>
               /\ (ops = 0 /\ frs = 0) =>
                    calls[i].err = <<"no", "definitions">> /\ calls[i].typ = <<>>
               /\ (ops = 0 /\ frs > 1) =>
                    /\ calls[i].err = <<"expected", "at", "most", "one", "fragment",
                                        "definition,", "found", ToString(frs)>>
                    /\ calls[i].typ = <<>>
               /\ ops > 1 =>
                    /\ calls[i].err = <<"expected", "at", "most", "one", "operation",
                                        "definition,", "found", ToString(ops)>>
                    /\ calls[i].typ = <<>>

\* query Fred, one operation with one fragment definition, was accepted,
\* and the document of two fragments after it was rejected with its count.
C12_Witness ==
    /\ Len(calls) >= 2
    /\ calls[1].gql = DocFred.gql
    /\ Len(DocFred.Operations) = 1 /\ Len(DocFred.Fragments) = 1
    /\ calls[1].err = <<>>
    /\ Render(calls[1].typ) = "{ data: Query_Fred_Data; variables: Query_Fred_Variables; }"
    /\ calls[2].gql = DocTwoFragments.gql
    /\ calls[2].err = <<"expected", "at", "most", "one", "fragment", "definition,",
                         "found", "2">>
    /\ calls[2].typ = <<>>

\* The process has exited.
Exited0 == exitStatus = 0

SomeCallFailed == \E i \in DOMAIN calls : calls[i].err # <<>>

SomeFileFailed == \E i \in DOMAIN files : files[i].err # ""

\* C13: when VisitString returned an error for at least one extracted
\* document of the run, the error count is not zero at the end and the
\* process exits with a status that is not zero; when no document and no
\* input file failed, it exits with status zero.
C13_ExitReflectsFailures ==
    exitStatus # -1 =>
        /\ SomeCallFailed => errors > 0 /\ exitStatus # 0
        /\ (~SomeCallFailed /\ ~SomeFileFailed) => exitStatus = 0

\* A run over one file whose only query is `{`: VisitString returned the
\* parse error, no warning was counted, and the process exited with 0.
C13_Witness ==
    /\ Exited0
    /\ errors = 0
    /\ files = <<InputFile(<<DocParseError>>)>>
    /\ Len(calls) = 1
    /\ calls[1].err = <<"loading", "query:", "input:1:", "Expected", "Name,", "found", "<EOF>">>
    /\ QueryMap = <<>>

\* A message that ends with the words "is never used.".
NeverUsed(msg) ==
    /\ Len(msg) >= 3
    /\ msg[Len(msg) - 2] = "is" /\ msg[Len(msg) - 1] = "never" /\ msg[Len(msg)] = "used."

\* The diagnostics of a list that do not end so, in their order.
OtherDiagnostics(errs) == SelectSeq(errs, LAMBDA msg : ~NeverUsed(msg))

RECURSIVE Lines(_)
Lines(errs) ==
    IF errs = <<>> THEN <<>> ELSE Head(errs) \o <<"\n">> \o Lines(Tail(errs))

TsName(leafName) ==
    CASE leafName \in {"String", "ID"} -> "string"
      [] leafName = "Boolean" -> "boolean"
      [] leafName \in {"Int", "Float"} -> "number"
      [] OTHER -> leafName

BuiltIn(leafName) == leafName \in {"String", "ID", "Boolean", "Int", "Float"}

\* The custom scalar a type names at its leaf, as a list of at most one.
CustomLeaf(type) ==
    IF BuiltIn(type[Len(type)].NamedType) THEN <<>> ELSE <<type[Len(type)].NamedType>>

RECURSIVE CustomLeavesOfVariables(_, _)
\* The custom scalars of variable definitions, in order, a name bound before
\* skipped.
CustomLeavesOfVariables(vardefs, bound) ==
    IF vardefs = <<>> THEN <<>>
    ELSE (IF Head(vardefs).Variable \in bound THEN <<>> ELSE CustomLeaf(Head(vardefs).Type))
         \o CustomLeavesOfVariables(Tail(vardefs), bound \cup {Head(vardefs).Variable})

RECURSIVE CustomLeavesOfSelections(_)
\* The custom scalars of the leaf fields a visit of the selections meets, in
\* the order it meets them (a named spread is not entered; the variables
\* arguments refer to are those the operation defines).
CustomLeavesOfSelections(selections) ==
    IF selections = <<>> THEN <<>>
    ELSE LET node == Head(selections)
         IN (CASE node.Kind = "Field" /\ node.SelectionSet = <<>> -> CustomLeaf(node.Type)
               [] node.Kind = "FragmentSpread" /\ node.Name # "" -> <<>>
               [] OTHER -> CustomLeavesOfSelections(node.SelectionSet))
            \o CustomLeavesOfSelections(Tail(selections))

RECURSIVE CustomLeavesOfDefinitions(_)
CustomLeavesOfDefinitions(defs) ==
    IF defs = <<>> THEN <<>>
    ELSE (IF "VariableDefinitions" \in DOMAIN Head(defs)
          THEN CustomLeavesOfVariables(Head(defs).VariableDefinitions, {}) ELSE <<>>)
         \o CustomLeavesOfSelections(Head(defs).SelectionSet)
         \o CustomLeavesOfDefinitions(Tail(defs))

RECURSIVE CustomLeavesOfCalls(_)
\* The custom scalars of the documents that were accepted, in call order.
CustomLeavesOfCalls(cs) ==
    IF cs = <<>> THEN <<>>
    ELSE CustomLeavesOfCalls(SubSeq(cs, 1, Len(cs) - 1))
         \o (IF cs[Len(cs)].err # <<>> THEN <<>>
             ELSE CustomLeavesOfDefinitions(DocOf(cs[Len(cs)].gql).Fragments
                                            \o DocOf(cs[Len(cs)].gql).Operations))

\* The tokens of a wrapped type other than the name at its leaf.
WrapperTokens == {"(", ")", "[]", SP, "|", "null"}

\* A leaf field is visited at this step, and recorded.
LeafFieldVisited ==
    /\ Running
    /\ Head(stack).op = "visitSelection"
    /\ Head(stack).node.Kind = "Field"
    /\ Head(stack).node.SelectionSet = <<>>
    /\ ~panicked'

\* C15: the leaf mapper turns String and ID into string, Boolean into
\* boolean, Int and Float into number and leaves Scalars alone for them;
\* any other leaf name is emitted as it is and appended to Scalars at every
\* visit, in the order of the visits, duplicates kept (a non-null Instant
\* is the text Instant, without nullable marker).
C15_LeafMapper ==
    /\ []((stack = <<>> /\ ~panicked) => Scalars = CustomLeavesOfCalls(calls))
    /\ [][ LeafFieldVisited =>
             LET node     == Head(stack).node
                 leafName == node.Type[Len(node.Type)].NamedType
                 text     == builders'[1].fields[aliasOf(node)]
             IN /\ \E i \in DOMAIN text :
                      /\ text[i] = TsName(leafName)
                      /\ \A j \in DOMAIN text \ {i} : text[j] \in WrapperTokens
                /\ node.Type = NonNullType(NamedType(leafName)) => text = <<TsName(leafName)>>
                /\ BuiltIn(leafName) => Scalars' = Scalars
                /\ ~BuiltIn(leafName) => Scalars' = Append(Scalars, leafName) ]_vars

\* query Leaves has been processed: its fields of type ID, Float and Int
\* left no trace in Scalars, now, homepage and now again (as later) left
\* theirs in that order, and both now and later are typed Instant.
C15_Witness ==
    /\ stack = <<>>
    /\ Len(calls) = 1
    /\ calls[1].gql = DocLeaves.gql
    /\ Scalars = <<"Instant", "Url", "Instant">>
    /\ Render(Declarations[1]) =
         "export type Query_Leaves_Data = { __typename: \"Query\"; homepage: Url | null; "
         \o "later: Instant; now: Instant; sum: number; uptime: number; "
         \o "viewerId: string | null; };"

\* The definitions of the variables of the operation being visited.
VariableDefinitionsVisited ==
    IF variables = <<>> \/ visiting = <<>> \/ visiting[1].Operations = <<>> THEN {}
    ELSE {def \in Range(visiting[1].Operations[1].VariableDefinitions) :
             def.Variable \in DOMAIN variables[1]}

Occurrences(text, token) == Cardinality({i \in DOMAIN text : text[i] = token})

NullableLevels(type) == Cardinality({i \in DOMAIN type : ~type[i].NonNull})

ListLevels(type) == Cardinality({i \in DOMAIN type : type[i].Elem})

FollowedBy(text, i, suffix) ==
    /\ i + Len(suffix) <= Len(text)
    /\ SubSeq(text, i + 1, i + Len(suffix)) = suffix

IntList == ListType(NonNullType(NamedType("Int")))

C17_NullableListWitness ==
    /\ visiting = <<DocVariable(IntList)>>
    /\ variables # <<>>
    /\ "v" \in DOMAIN variables[1]
    /\ Render(variables[1]["v"]) = "(number | null"

\* ---- reading a wrapped type back

\* The parenthesis depth in front of token i of text.
ParenDepthBefore(text, i) ==
    Cardinality({k \in 1..(i - 1) : text[k] = "("})
    - Cardinality({k \in 1..(i - 1) : text[k] = ")"})

\* The union bars of text outside every parenthesis.
TopLevelBars(text) ==
    {i \in DOMAIN text : text[i] = "|" /\ ParenDepthBefore(text, i) = 0}

\* text is one parenthesized type: its first token opens the parenthesis
\* that its last token closes.
Enclosed(text) ==
    /\ Len(text) >= 2
    /\ text[1] = "(" /\ text[Len(text)] = ")"
    /\ \A i \in 2..Len(text) : ParenDepthBefore(text, i) > 0

\* What a text that is no type of the expected forms reads as.
Unreadable == << [NamedType |-> "?", Elem |-> FALSE, NonNull |-> FALSE] >>

RECURSIVE ReadBack(_)
\* The wrapper chain a TypeScript type reads as: a union binds weaker than
\* the postfix [], so A | null is the nullable A, B[] the list of B, (C) is
\* C, and a name is itself; a level is NonNull unless it is a union with null.
ReadBack(text) ==
    LET n    == Len(text)
        bars == TopLevelBars(text)
    IN IF bars # {}
       THEN IF /\ bars = {n - 2}
               /\ n > 4
               /\ SubSeq(text, n - 3, n) = <<SP, "|", SP, "null">>
            THEN LET inner == ReadBack(SubSeq(text, 1, n - 4))
                 IN << [inner[1] EXCEPT !.NonNull = FALSE] >> \o Tail(inner)
            ELSE Unreadable
       ELSE IF n = 0 THEN Unreadable
       ELSE IF text[n] = "[]"
       THEN << [NamedType |-> "", Elem |-> TRUE, NonNull |-> TRUE] >>
            \o ReadBack(SubSeq(text, 1, n - 1))
       ELSE IF Enclosed(text) THEN ReadBack(SubSeq(text, 2, n - 1))
       ELSE IF n = 1 /\ text[1] \notin WrapperTokens
       THEN << [NamedType |-> text[1], Elem |-> FALSE, NonNull |-> TRUE] >>
       ELSE Unreadable

\* The chain with the TypeScript name at its leaf.
Mapped(type) ==
    [i \in DOMAIN type |->
        IF type[i].Elem THEN type[i] ELSE [type[i] EXCEPT !.NamedType = TsName(@)]]

AllNullable(type) == \A i \in DOMAIN type : ~type[i].NonNull

VariablesShapeBuilt ==
    IF CurrentDefinition.def.Name = ""
    THEN LET k == CHOOSE i \in DOMAIN typ' : typ'[i] = "variables:"
         IN SubSeq(typ', k + 2, Len(typ') - 3)
    ELSE LET d == Declarations'[Len(Declarations')]
         IN SubSeq(d, 9, Len(d) - 1)

\* The names a shape lists, in its order: the tokens in front of a colon.
NamesListed(shape) ==
    LET at == Ascending({i \in 1..(Len(shape) - 1) : shape[i + 1] = ":"})
    IN [j \in DOMAIN at |-> shape[at[j]]]

\* The definition of the first binding of a name among the definitions.
FirstBinding(vardefs, name) ==
    vardefs[CHOOSE i \in DOMAIN vardefs :
                /\ vardefs[i].Variable = name
                /\ \A j \in 1..(i - 1) : vardefs[j].Variable # name]

\* The variable definitions the arguments of a field refer to.
VariablesReferred(node) ==
    {node.Arguments[i].VariableDefinition :
        i \in {j \in DOMAIN node.Arguments : node.Arguments[j].Kind = "Variable"}}

\* A field whose arguments refer to variables bound before is visited.
BoundVariableUsed ==
    /\ Running
    /\ Head(stack).op = "visitSelection"
    /\ Head(stack).node.Kind = "Field"
    /\ VariablesReferred(Head(stack).node) # {}
    /\ \A def \in VariablesReferred(Head(stack).node) : def.Variable \in DOMAIN variables[1]

\* C19: within one definition the first binding of a variable name fixes
\* its type: a later definition or use as argument of a name bound before
\* changes neither the recorded types nor Scalars and raises no error; the
\* variables shape lists every recorded name exactly once, in sorted order,
\* each with its recorded type (which, for a type without list level, reads
\* back as the type of the first binding), and is { } when no variable was
\* recorded.
C19_FirstBindingWins ==
    /\ [](\A def \in VariableDefinitionsVisited :
             LET first == FirstBinding(visiting[1].Operations[1].VariableDefinitions,
                                       def.Variable).Type
             IN ListLevels(first) = 0 =>
                  ReadBack(variables[1][def.Variable]) = Mapped(first))
    /\ [][ BoundVariableUsed =>
             /\ ~panicked'
             /\ variables'[1] = variables[1]
             /\ Scalars' = Scalars \o (IF Head(stack).node.SelectionSet = <<>>
                                       THEN CustomLeaf(Head(stack).node.Type) ELSE <<>>) ]_vars
    /\ [][ endDefinition =>
             LET listed == NamesListed(VariablesShapeBuilt)
             IN /\ Range(listed) = DOMAIN variables[1]
                /\ \A i, j \in DOMAIN listed : i < j => StringLess(listed[i], listed[j])
                /\ DOMAIN variables[1] = {} => VariablesShapeBuilt = <<"{", SP, "}">>
                /\ \A i \in 1..(Len(VariablesShapeBuilt) - 1) :
                     VariablesShapeBuilt[i + 1] = ":" =>
                        FollowedBy(VariablesShapeBuilt, i + 2,
                                   variables[1][VariablesShapeBuilt[i]] \o <<";">>) ]_vars

\* query Format has been processed: Scalars holds Instant once, from the
\* definition of $t, although two arguments referred to $t after it, and
\* the shape lists n before t.
C19_Witness ==
    /\ stack = <<>>
    /\ Len(calls) = 1
    /\ calls[1].gql = DocFormat.gql
    /\ calls[1].err = <<>>
    /\ Scalars = <<"Instant">>
    /\ Render(Declarations[2])
         = "export type Query_Format_Variables = { n: string; t: Instant; };"

\* The positions of the members named __typename in a shape: the
\* discriminant writeObject starts a shape with, and a field of that name.
TypenameMembers(text) ==
    {j \in DOMAIN text :
        \/ text[j] = "__typename:"
        \/ text[j] = "__typename" /\ j < Len(text) /\ text[j + 1] = ":"}

\* The positions where an object shape of text starts, nested ones not
\* counted.
ShapeStarts(text) == {j \in DOMAIN text : text[j] = "{" /\ DepthBefore(text, j) = 0}

\* The selections name the field __typename.
SelectsTypename(selections) ==
    \E k \in DOMAIN selections :
        selections[k].Kind = "Field" /\ selections[k].Name = "__typename"

HasPart(text, part) ==
    \E j \in 1..(Len(text) - Len(part) + 1) : SubSeq(text, j, j + Len(part) - 1) = part

\* C20: the shape of a selection set that selects __typename explicitly
\* holds the member __typename exactly once, typed as the canonical union
\* of quoted type names, and no further member __typename: string;
\* { currentUser { __typename } } gives the nested shape
\* { __typename: "User"; }.
C20_TypenameOnce ==
    \A i \in DOMAIN left :
        LET text == left[i].dataType
        IN SelectsTypename(left[i].hist.selections) =>
            /\ Cardinality({j \in TypenameMembers(text) : DepthBefore(text, j) = 1})
                 = Cardinality(ShapeStarts(text))
            /\ \A j \in TypenameMembers(text) : text[j] = "__typename:"
            /\ visiting = <<DocTypename>> =>
                 HasPart(text, <<"{", SP, "__typename:", SP, "\"User\"", ";", SP, "}">>)

\* The selection set of currentUser in { currentUser { __typename } } has
\* been left, and its shape has two members named __typename: the
\* discriminant and the field.
C20_Witness ==
    /\ visiting = <<DocTypename>>
    /\ left # <<>>
    /\ left[1].hist.type = "User"
    /\ SelectsTypename(left[1].hist.selections)
    /\ Cardinality(TypenameMembers(left[1].dataType)) = 2
    /\ HasPart(left[1].dataType, <<"{", SP, "__typename:", SP, "\"User\"", ";", SP,
                                   "__typename", ":", SP, "string">>)

\* An inline fragment without type condition is visited at this step.
TypelessFragmentVisited ==
    /\ Running
    /\ Head(stack).op = "visitSelection"
    /\ Head(stack).node.Kind = "InlineFragment"
    /\ Head(stack).node.TypeCondition = ""

\* C21: visiting an inline fragment without type condition does not fail,
\* keeps the members of self as they are while inside it, visits its
\* selections against the current frame, and restores self when it is left,
\* as the fragment on the position's own type does.
C21_TypelessFragment ==
    [][ TypelessFragmentVisited =>
            /\ ~panicked'
            /\ Len(builders') = Len(builders)
            /\ Range(builders'[1].self.definitions) = Range(builders[1].self.definitions)
            /\ Len(stack') = Len(stack) + Len(Head(stack).node.SelectionSet)
            /\ stack'[Len(Head(stack).node.SelectionSet) + 1].op = "widen"
            /\ stack'[Len(Head(stack).node.SelectionSet) + 1].old = builders[1].self ]_vars

\* The visit of { currentUser { ... { name } } } has panicked in the frame
\* of currentUser, in front of the selections of the fragment.
C21_Witness ==
    /\ visiting = <<DocTypeless>>
    /\ panicked
    /\ Len(builders) = 2
    /\ builders[1].self.canonical = <<"\"User\"">>
    /\ Head(stack).op = "visitSelection"
    /\ Head(stack).node = InlineFragment("", <<Leaf("User", "name")>>)
    /\ calls = <<>>

\* ---- extraction

\* At position p of text stands a backtick with "#graphql" right after it.
OpeningAt(text, p) ==
    /\ p + Len(Marker) <= Len(text)
    /\ text[p] = Backtick
    /\ \A k \in 1..Len(Marker) : text[p + k] = Marker[k]

\* The first opening of text after position k, and the first backtick
\* after position p; 0 for none.
NextOpening(text, k) ==
    IF \E p \in (k + 1)..Len(text) : OpeningAt(text, p)
    THEN CHOOSE p \in (k + 1)..Len(text) :
            OpeningAt(text, p) /\ \A q \in (k + 1)..(p - 1) : ~OpeningAt(text, q)
    ELSE 0

NextBacktick(text, p) ==
    IF \E c \in (p + 1)..Len(text) : text[c] = Backtick
    THEN CHOOSE c \in (p + 1)..Len(text) :
            text[c] = Backtick /\ \A q \in (p + 1)..(c - 1) : text[q] # Backtick
    ELSE 0

RECURSIVE Literals(_, _)
\* The literals of text after position k that an opening starts and the
\* next backtick closes, and whether the last opening was closed.
Literals(text, k) ==
    LET p == NextOpening(text, k)
        c == NextBacktick(text, p)
    IN IF p = 0 THEN [strings |-> <<>>, complete |-> TRUE]
       ELSE IF c = 0 THEN [strings |-> <<>>, complete |-> FALSE]
       ELSE LET rest == Literals(text, c)
            IN [ strings  |-> <<SubSeq(text, p + 1, c - 1)>> \o rest.strings,
                 complete |-> rest.complete ]

\* C22: FromBytes returns, in their order, one string for every literal
\* that a backtick with "#graphql" right after it opens and the next
\* backtick closes; each string starts with "#graphql", ends in front of
\* that backtick and holds no backtick; an input without opening gives the
\* empty result and no error.
C22_Extracted ==
    pc = "done" =>
        /\ Literals(given, 0).complete =>
              ret = [res |-> Literals(given, 0).strings, err |-> ""]
        /\ \A k \in DOMAIN ret.res :
              /\ Len(ret.res[k]) >= Len(Marker)
              /\ SubSeq(ret.res[k], 1, Len(Marker)) = Marker
              /\ Backtick \notin Range(ret.res[k])
        /\ (\A p \in DOMAIN given : ~OpeningAt(given, p)) =>
              ret = [res |-> <<>>, err |-> ""]

\* FromBytes has returned two strings, the second with a two-byte rune.
C22_Witness ==
    /\ pc = "done"
    /\ given = startRE \o <<Backtick>> \o startRE \o <<"C3", "A9">> \o <<Backtick>>
    /\ ret = [res |-> <<Marker, Marker \o <<"C3", "A9">> >>, err |-> ""]

\* C23: when the input ends before the backtick that closes an opened
\* literal, FromBytes returns io.ErrUnexpectedEOF and the nil result, also
\* after complete literals; and FromBytes returns for every input.
C23_UnexpectedEOF ==
    /\ []((pc = "done" /\ ~Literals(given, 0).complete) =>
             ret = [res |-> <<>>, err |-> "io.ErrUnexpectedEOF"])
    /\ <>(pc = "done")

\* FromBytes has returned the error for an input with one complete literal
\* in front of the unterminated one: it had found a string, and returned
\* none.
C23_Witness ==
    /\ pc = "done"
    /\ given = startRE \o <<Backtick>> \o startRE \o <<"C3", "A9">>
    /\ res = <<Marker>>
    /\ ret = [res |-> <<>>, err |-> "io.ErrUnexpectedEOF"]

\* ---- unions

\* The unions a builder holds: its self and its alternatives.
UnionsOf(b) == {b.self} \cup {b.alternatives[k] : k \in DOMAIN b.alternatives}

\* The unions of the state: those of the builders in use and of the frame
\* last left.
UnionsBuilt ==
    UNION ({UnionsOf(builders[i]) : i \in DOMAIN builders}
           \cup {UnionsOf(left[i].builder) : i \in DOMAIN left})

\* The key of a set of member types: their quoted names in ascending order
\* with " | " between them, never for no member.
KeyOfSet(S) ==
    LET ranks == Ascending({Rank(StringToJSON(n)) : n \in S})
    IN IF S = {} THEN <<"never">>
       ELSE [i \in 1..(4 * Len(ranks) - 3) |->
               CASE i % 4 = 1 -> StringOrder[ranks[(i + 3) \div 4]]
                 [] i % 4 = 3 -> "|"
                 [] OTHER -> SP]

\* C24: unions built from the same set of members, in whatever order, have
\* the same canonical key: the quoted member names sorted ascending and
\* joined by " | ", never for the empty set; unions of different sets have
\* different keys.
C24_CanonicalKey ==
    /\ \A u \in UnionsBuilt : u.canonical = KeyOfSet(Range(u.definitions))
    /\ \A u, v \in UnionsBuilt :
         Range(u.definitions) = Range(v.definitions) <=> u.canonical = v.canonical

\* Inside named of { node { id } named(name: "x") { ... on Named { name } } }
\* after its fragment: self lists Pet then User, the union stored under the
\* same key lists User then Pet, and the frame left before, of node, has the
\* empty union with the key never.
C24_Witness ==
    /\ visiting = <<DocNodeNamed>>
    /\ Len(builders) = 2
    /\ builders[1].self.definitions = <<"Pet", "User">>
    /\ builders[1].alternatives[builders[1].self.canonical].definitions = <<"User", "Pet">>
    /\ left # <<>>
    /\ left[1].builder.self = [definitions |-> <<>>, canonical |-> <<"never">>]

\* startObject is called for a type name at this step.
ObjectStarted == Running /\ Head(stack).op = "startObject"

\* C25: toConcreteUnion gives, for an object type, the union of that type
\* alone; for an interface, the object types of the schema that list it
\* among their interfaces, in whatever order the schema's types are
\* enumerated; for a union type, its declared members; for a scalar, enum
\* or input type it panics and returns no union.
C25_ConcreteUnion ==
    [][ ObjectStarted =>
            LET name == Head(stack).name
                kind == Schema[name].Kind
            IN /\ kind = "OBJECT" =>
                    ~panicked' /\ builders'[1].self.definitions = <<name>>
               /\ kind = "INTERFACE" =>
                    /\ ~panicked'
                    /\ Range(builders'[1].self.definitions) = Implementers(name)
                    /\ Len(builders'[1].self.definitions) = Cardinality(Implementers(name))
               /\ kind = "UNION" =>
                    ~panicked' /\ builders'[1].self.definitions = Schema[name].Types
               /\ kind \notin {"OBJECT", "INTERFACE", "UNION"} =>
                    panicked' /\ builders' = <<>> ]_vars

\* The frame of the interface Named was opened with the schema's types
\* enumerated from User to Green, giving User and Pet; narrowing it to the
\* scalar Instant has then panicked.
C25_Witness ==
    /\ panicked
    /\ Len(builders) = 1
    /\ hist[1].type = "Named"
    /\ builders[1].self.definitions = <<"User", "Pet">>
    /\ stack = <<>>

\* The call for the scalar Url has panicked: no frame was opened.
C25_ScalarWitness ==
    /\ panicked
    /\ builders = <<>>
    /\ stack = << [op |-> "startObject", name |-> "Url"] >>

\* A call of VisitString returns at this step.
CallReturns == Len(calls') = Len(calls) + 1

\* C26: across the calls of VisitString on one Typer the three lists only
\* grow: at every step QueryMap, Declarations and Scalars keep what they
\* held as a prefix; QueryMap gets one entry at the return of every
\* successful call and at no other step, its text being the text the call
\* was given.
C26_ListsOnlyGrow ==
    [][ /\ IsPrefix(QueryMap, QueryMap')
        /\ IsPrefix(Declarations, Declarations')
        /\ IsPrefix(Scalars, Scalars')
        /\ IF CallReturns /\ calls'[Len(calls')].err = <<>>
           THEN /\ Len(QueryMap') = Len(QueryMap) + 1
                /\ QueryMap'[Len(QueryMap')].Query = visiting[1].gql
                /\ QueryMap'[Len(QueryMap')].Type = result'.typ
           ELSE QueryMap' = QueryMap ]_vars

\* query Fred, then a document with two operations, then query Clock have
\* been handled: two QueryMap entries in the order of the calls, the
\* declarations of Clock behind those of Fred, and the scalar of Clock.
C26_Witness ==
    /\ stack = <<>>
    /\ Len(calls) = 3
    /\ calls[1].gql = DocFred.gql
    /\ calls[2].gql = DocTwoOperations.gql /\ calls[2].err # <<>>
    /\ calls[3].gql = DocClock.gql
    /\ Len(QueryMap) = 2
    /\ QueryMap[1].Query = DocFred.gql
    /\ QueryMap[2].Query = DocClock.gql
    /\ Len(Declarations) = 6
    /\ DeclaredName(Declarations[5]) = "Query_Clock_Data"
    /\ Scalars = <<"Instant">>

\* The declarations the i-th call appended, for a call that returned a type.
DeclarationsOf(i) ==
    LET before == Len(NamesOfCalls(SubSeq(calls, 1, i - 1)))
        n      == Len(NamesOf(DocOf(calls[i].gql)))
    IN SubSeq(Declarations, before + 1, before + n)

\* The text of query Fred's data shape, the segments by canonical key.
FredData ==
    "export type Query_Fred_Data = { __typename: \"Query\"; named: ("
    \o "{ __typename: \"Pet\"; species: string; } & Fragment_Named_Data | "
    \o "{ __typename: \"Pet\" | \"User\"; species: string; } & Fragment_Named_Data"
    \o ") | null; };"

\* C27: the emitted text is deterministic: two visits of the same document
\* over the same schema, each ranging over the schema's types in an order
\* of its own at every frame and narrowing, return the same document type
\* and append the same declarations (data shape and variables shape); the
\* data shape of query Fred is the one text with its segments in the order
\* of their canonical keys, and the interface-typed field of the anonymous
\* query has the one union "Pet" | "User".
C27_Deterministic ==
    \A i \in DOMAIN calls :
        calls[i].err = <<>> =>
            /\ \A j \in DOMAIN calls :
                   calls[j].gql = calls[i].gql =>
                       /\ calls[j].err = <<>>
                       /\ calls[j].typ = calls[i].typ
                       /\ DeclarationsOf(j) = DeclarationsOf(i)
            /\ calls[i].gql = DocFred.gql =>
                   /\ Len(DeclarationsOf(i)) = 4
                   /\ Render(DeclarationsOf(i)[3]) = FredData
                   /\ Render(DeclarationsOf(i)[1])
                        = "export type Fragment_Named_Data = { __typename: \"Pet\" | \"User\"; name: string; };"
            /\ calls[i].gql = DocNamedOnly.gql =>
                   Render(calls[i].typ)
                     = "{ data: { __typename: \"Query\"; named: ({ __typename: \"Pet\" | \"User\"; name: string; }) | null; }; variables: { }; }"

\* query Fred has been visited twice on one Typer, with the anonymous query
\* on the interface in between: eight declarations, those of the third call
\* behind those of the first.
C27_Witness ==
    /\ stack = <<>>
    /\ Len(calls) = 3
    /\ calls[1].gql = DocFred.gql /\ calls[1].err = <<>>
    /\ calls[2].gql = DocNamedOnly.gql /\ calls[2].err = <<>>
    /\ calls[3].gql = DocFred.gql /\ calls[3].err = <<>>
    /\ Len(Declarations) = 8
    /\ DeclarationsOf(3) = DeclarationsOf(1)

\* visitField opens the frame of a field that has a selection set, and
\* visitField closes it, at this step.
CompositeFieldEntered ==
    /\ ~panicked /\ ~panicked'
    /\ stack # <<>>
    /\ Head(stack).op = "visitSelection"
    /\ Head(stack).node.Kind = "Field"
    /\ Head(stack).node.SelectionSet # <<>>

CompositeFieldLeft ==
    /\ ~panicked /\ ~panicked'
    /\ stack # <<>>
    /\ Head(stack).op = "endField"

\* The field types of the schema's composite fields around a shape: T,
\* T! and [T!]!.
ExpectedWrapping(type, shape) ==
    IF Len(type) = 1
    THEN IF type[1].NonNull THEN shape
         ELSE <<"(">> \o shape \o <<")", SP, "|", SP, "null">>
    ELSE <<"(">> \o shape \o <<")", "[]">>

CompositeFieldTypes ==
    UNION {{NamedType(n), NonNullType(NamedType(n)),
            NonNullType(ListType(NonNullType(NamedType(n))))} : n \in TypeNames}

WithinRoot(b, root) ==
    LET members == Range(root.definitions)
    IN /\ Range(b.self.definitions) \subseteq members
       /\ \A k \in DOMAIN b.alternatives :
              /\ Range(b.alternatives[k].definitions) \subseteq members
              /\ b.alternatives[k].canonical = k
       /\ DOMAIN b.objects = members
       /\ ~MissingBuilder(b)
       /\ \A n \in DOMAIN b.objects : b.objects[n].fields \subseteq DOMAIN b.fields
       /\ DOMAIN b.alternatives # {}
       /\ root.canonical \in DOMAIN b.alternatives
       /\ Range(b.alternatives[root.canonical].definitions) = members
       /\ b.self.canonical \in DOMAIN b.alternatives

\* The call in front of which the visit panicked is a call of
\* toConcreteUnion with no definition or with one of a leaf type.
PanickedInToConcreteUnion ==
    /\ stack # <<>>
    /\ Head(stack).op = "visitSelection"
    /\ LET node == Head(stack).node
       IN IF node.Kind = "Field"
          THEN /\ node.SelectionSet # <<>>
               /\ Panics(getDefinition(leafNameOf(node.Type)))
          ELSE Panics(getDefinition(node.TypeCondition))

\* C29: in every state of every frame (the open ones and the one last
\* left), the members of self and of every union in alternatives are members
\* of the frame's root union, each of which has an object builder, so that
\* marking a field or a fragment never meets a missing builder (the only
\* panic is the one of toConcreteUnion); alternatives is never empty and
\* holds the root union under its key, and every union under its own key.
C29_WithinRootUnion ==
    /\ Len(hist) = Len(builders)
    /\ \A i \in DOMAIN builders : WithinRoot(builders[i], hist[i].root)
    /\ FrameLeft => WithinRoot(left[1].builder, left[1].hist.root)
    /\ panicked => PanickedInToConcreteUnion

\* In query Fred, the field species has been recorded in the frame of
\* named narrowed to Pet: self is "Pet" within the root "Pet" | "User",
\* alternatives holds both, and species is marked on Pet's builder.
C29_Witness ==
    /\ ~panicked
    /\ visiting = <<DocFred>>
    /\ Len(builders) = 2
    /\ Range(hist[1].root.definitions) = {"Pet", "User"}
    /\ Range(builders[1].self.definitions) = {"Pet"}
    /\ Cardinality(DOMAIN builders[1].alternatives) = 2
    /\ builders[1].objects["Pet"].fields = {"species"}
    /\ builders[1].objects["Pet"].fragments = {"Named"}
    /\ builders[1].objects["User"].fields = {}

\* The names a text refers to by intersection (" & Fragment_X_Data").
FragmentsReferred(text) == {text[k] : k \in {n \in 3..Len(text) : text[n - 2] = "&"}}

\* The names declared by a list of declarations.
NamesDeclared(decls) == {DeclaredName(decls[k]) : k \in DOMAIN decls}

\* The names the i-th call refers to, in the type it returned and in the
\* declarations it appended.
ReferredByCall(i) ==
    FragmentsReferred(calls[i].typ)
    \cup UNION {FragmentsReferred(DeclarationsOf(i)[k]) : k \in DOMAIN DeclarationsOf(i)}

\* C30: after every document VisitString has processed with success, every
\* Fragment_<X>_Data that an intersection refers to, in the type returned
\* for that document or in a declaration appended for it, is declared by a
\* declaration appended for that document; so every name referred to in
\* Declarations or in QueryMap has a declaration in Declarations.
C30_ReferencesDeclared ==
    stack = <<>> =>
        /\ Len(NamesOfCalls(calls)) = Len(Declarations)
        /\ \A i \in DOMAIN calls :
               calls[i].err = <<>> =>
                   ReferredByCall(i) \subseteq NamesDeclared(DeclarationsOf(i))
        /\ \A k \in DOMAIN Declarations :
               FragmentsReferred(Declarations[k]) \subseteq NamesDeclared(Declarations)
        /\ \A k \in DOMAIN QueryMap :
               FragmentsReferred(QueryMap[k].Type) \subseteq NamesDeclared(Declarations)

\* query Nested has been processed: the declaration of the operation
\* refers to Fragment_Outer_Data, the one of Outer to Fragment_Named_Data,
\* declared behind it.
C30_Witness ==
    /\ stack = <<>>
    /\ ~panicked
    /\ Len(calls) = 1
    /\ calls[1].gql = DocNested.gql
    /\ calls[1].err = <<>>
    /\ Len(Declarations) = 6
    /\ DeclaredName(Declarations[1]) = "Fragment_Outer_Data"
    /\ FragmentsReferred(Declarations[1]) = {"Fragment_Named_Data"}
    /\ DeclaredName(Declarations[3]) = "Fragment_Named_Data"
    /\ FragmentsReferred(Declarations[5]) = {"Fragment_Outer_Data"}

====
